---- MODULE Spec2Model ----
(***************************************************************************)
(* LeaderBlockCommitOp (chainstate/burn/operations/leader_block_commit.rs) *)
(* as a state machine: the wire codec (consensus_serialize / parse_data),  *)
(* the transaction classifier (parse_from_tx) and the validity checker     *)
(* (check, check_pox) run against a sortition-DB read view of one fork.    *)
(*                                                                         *)
(* Abstractions:                                                           *)
(*  - hashes, txids and addresses are small integers / records; a 32-byte  *)
(*    hash k is the byte string of 32 copies of the byte k on the wire;    *)
(*  - u64 amounts are scaled to AmountBits bits (U64_MAX), so that         *)
(*    checked_add / checked_mul overflow stays reachable;                  *)
(*  - the sortition DB answers every query (storage errors are not         *)
(*    modelled), except descended_from, whose failure check_pox maps to    *)
(*    BlockCommitAnchorCheck;                                              *)
(*  - the read view is one fork: a list of snapshots from the first block  *)
(*    to the chain tip, with the leader keys and block commits stored in   *)
(*    it.                                                                  *)
(***************************************************************************)
EXTENDS Integers, Sequences, FiniteSets, TLC

VARIABLES
    pc,             \* position of the block-processing loop / codec harness
    snapshots,      \* the fork: BlockSnapshot rows, first block first
    leader_keys,    \* stored LeaderKeyRegisterOps: <<block_height, vtxindex>>
    block_commits,  \* stored LeaderBlockCommitOps
    epochs,         \* the StacksEpoch table of the sortition DB
    op,             \* the LeaderBlockCommitOp in hand
    env,            \* the other arguments of the call in hand
    result,         \* what the last call returned
    tx,             \* the BurnchainTransaction in hand
    wire,           \* bytes written by consensus_serialize
    block           \* the burn block being processed: its operations and outcomes

vars == <<pc, snapshots, leader_keys, block_commits, epochs, op, env, result, tx, wire, block>>

chain_vars == <<snapshots, leader_keys, block_commits, epochs>>

(***************************************************************************)
(* Bounds of the model                                                     *)
(***************************************************************************)
FirstBlockHeight == 2   \* height of the first block snapshot
MaxBlocks == 2          \* burn blocks appended after the first one
AmountBits == 3         \* width the u64 amounts are scaled to

(***************************************************************************)
(* Program constants                                                       *)
(***************************************************************************)
OUTPUTS_PER_COMMIT == 2
BURN_BLOCK_MINED_AT_MODULUS == 5
STACKS_EPOCH_2_05_MARKER == 5
PAYLOAD_LEN == 77
OPCODE_LEADER_BLOCK_COMMIT == 91
STACKS_EPOCH_MAX == 2147483647

U64_MAX == 2^AmountBits - 1
MaxTip == FirstBlockHeight + MaxBlocks

(***************************************************************************)
(* Result values: Ok(..), Err(op_error::..) and a panic (process abort)    *)
(***************************************************************************)
Ok == [tag |-> "Ok", data |-> <<>>]
Err(e) == [tag |-> e, data |-> <<>>]
Panic == [tag |-> "Panic", data |-> <<>>]
OkOp(o) == [tag |-> "Ok", data |-> <<o>>]

\* op_error::MissedBlockCommit(MissedBlockCommit { txid, input, intended_sortition })
MissedBlockCommit(txid, input, intended_sortition) ==
    [tag |-> "MissedBlockCommit", data |-> <<txid, input, intended_sortition>>]

None == [is_some |-> FALSE]
Some(v) == [is_some |-> TRUE, value |-> v]

(***************************************************************************)
(* StacksAddress: version byte and hash bytes; the burn address of a       *)
(* network has all-zero hash bytes.                                        *)
(***************************************************************************)
VERSION_TESTNET == 26

Addr(v, b) == [version |-> v, bytes |-> b]

is_burn(addr) == addr.bytes = 0

burn_address(mainnet) == Addr(IF mainnet THEN VERSION_TESTNET - 4 ELSE VERSION_TESTNET, 0)

\* derived Ord of StacksAddress: by version, then by bytes
addr_le(a, b) == a.version < b.version \/ (a.version = b.version /\ a.bytes <= b.bytes)

RECURSIVE insert_sorted(_, _)
insert_sorted(a, s) ==
    IF s = <<>> THEN <<a>>
    ELSE IF addr_le(a, Head(s)) THEN <<a>> \o s
    ELSE <<Head(s)>> \o insert_sorted(a, Tail(s))

RECURSIVE sort(_)
sort(s) == IF s = <<>> THEN <<>> ELSE insert_sorted(Head(s), sort(Tail(s)))

(***************************************************************************)
(* Burnchain parameters                                                    *)
(***************************************************************************)
is_in_prepare_phase(burnchain, block_height) == block_height \in burnchain.prepare_heights

is_mainnet(burnchain) == burnchain.mainnet

\* the sunset-burn formula: the share sunset_progress / sunset_duration of the
\* total commitment (the progress is 0 outside the sunset window)
expected_sunset_burn(burnchain, block_height, total_committed) ==
    (total_committed * burnchain.sunset_progress) \div burnchain.sunset_duration

(***************************************************************************)
(* The sortition DB read view of the current fork                          *)
(***************************************************************************)
BurnHash(h) == 1000 + h

get_first_block_snapshot(snaps) == snaps[1]

chain_tip(snaps) == snaps[Len(snaps)]

\* Option<SortitionId> of the ancestor at `height`
get_ancestor_block_hash(snaps, height) ==
    IF \E i \in 1..Len(snaps) : snaps[i].block_height = height
    THEN Some((CHOOSE s \in {snaps[i] : i \in 1..Len(snaps)} : s.block_height = height).sortition_id)
    ELSE None

get_leader_key_at(keys, key_block_height, vtxindex) ==
    IF <<key_block_height, vtxindex>> \in keys THEN Some(<<key_block_height, vtxindex>>) ELSE None

get_block_commit_parent(commits, block_height, vtxindex) ==
    IF \E c \in commits : c.block_height = block_height /\ c.vtxindex = vtxindex
    THEN Some(CHOOSE c \in commits : c.block_height = block_height /\ c.vtxindex = vtxindex)
    ELSE None

\* the fork expects a Stacks block when a sortition of the fork chose it
expects_stacks_block_in_fork(snaps, block_header_hash) ==
    \E i \in 1..Len(snaps) :
        snaps[i].sortition /\ snaps[i].winning_stacks_block_hash = block_header_hash

get_stacks_epoch(epoch_table, block_height) ==
    IF \E i \in 1..Len(epoch_table) :
           epoch_table[i].start_height <= block_height /\ block_height < epoch_table[i].end_height
    THEN Some(epoch_table[CHOOSE i \in 1..Len(epoch_table) :
           epoch_table[i].start_height <= block_height /\ block_height < epoch_table[i].end_height])
    ELSE None

\* Result<bool, db_error> of the fork-descent query, as answered by the view
descended_from(view, parent_block_height, anchor_block) == view.descended

(***************************************************************************)
(* LeaderBlockCommitOp helpers                                             *)
(***************************************************************************)
burn_block_mined_at(o) == o.burn_parent_modulus % BURN_BLOCK_MINED_AT_MODULUS

is_parent_genesis(o) == o.parent_block_ptr = 0 /\ o.parent_vtxindex = 0

RECURSIVE fold_is_burn(_)
fold_is_burn(addrs) ==
    IF addrs = <<>> THEN TRUE ELSE fold_is_burn(SubSeq(addrs, 1, Len(addrs) - 1)) /\ is_burn(addrs[Len(addrs)])

\* all_outputs_burn, with a fold that forgets the outputs before the last
all_outputs_burn_last_only(o) ==
    IF o.commit_outs = <<>> THEN TRUE ELSE is_burn(o.commit_outs[Len(o.commit_outs)])

all_outputs_burn(o) == fold_is_burn(o.commit_outs)

check_single_burn_output(o) ==
    IF Len(o.commit_outs) # 1 THEN Err("BlockCommitBadOutputs")
    ELSE IF ~is_burn(o.commit_outs[1]) THEN Err("BlockCommitBadOutputs")
    ELSE Ok

check_after_pox_sunset(o) == check_single_burn_output(o)

check_prepare_commit_burn(o) == check_single_burn_output(o)

\* check_recipients_of, padding with the burn address of the test network
check_recipients_of_testnet_pad(burnchain, reward_set_info) ==
    LET addrs == [i \in 1..Len(reward_set_info.recipients) |-> reward_set_info.recipients[i][1]]
    IN  IF Len(addrs) = 1 THEN Append(addrs, burn_address(FALSE)) ELSE addrs

\* the recipients of the reward set, padded to two when there is exactly one
check_recipients_of(burnchain, reward_set_info) ==
    LET addrs == [i \in 1..Len(reward_set_info.recipients) |-> reward_set_info.recipients[i][1]]
    IN  IF Len(addrs) = 1 THEN Append(addrs, burn_address(is_mainnet(burnchain))) ELSE addrs

\* sorted_zip_differs, comparing the lists in the order they are given
sorted_zip_differs_positional(commit_outs, check_recipients) ==
    LET a == commit_outs
        b == check_recipients
    IN  \E i \in 1..Len(a) : i <= Len(b) /\ a[i] # b[i]

\* the zip of the two sorted lists finds a differing pair
sorted_zip_differs(commit_outs, check_recipients) ==
    LET a == sort(commit_outs)
        b == sort(check_recipients)
    IN  \E i \in 1..Len(a) : i <= Len(b) /\ a[i] # b[i]

(***************************************************************************)
(* RewardSetInfo::into_commit_outs                                         *)
(***************************************************************************)
\* while outs.len() < OUTPUTS_PER_COMMIT { outs.push(burn_address(mainnet)) }
RECURSIVE pad_with_burns(_, _)
pad_with_burns(outs, mainnet) ==
    IF Len(outs) < OUTPUTS_PER_COMMIT
    THEN pad_with_burns(Append(outs, burn_address(mainnet)), mainnet)
    ELSE outs

into_commit_outs(from, mainnet) ==
    IF from.is_some THEN
        LET recipient_set == from.value
            outs == [i \in 1..Len(recipient_set.recipients) |-> recipient_set.recipients[i][1]]
        IN  pad_with_burns(outs, mainnet)
    ELSE [i \in 1..OUTPUTS_PER_COMMIT |-> burn_address(mainnet)]

(***************************************************************************)
(* check_pox                                                               *)
(***************************************************************************)
\* check_pox, asking for descent from the anchor block only of operations that
\* pay the recipients
check_pox_burns_unchecked(o, burnchain, view, reward_set_info) ==
    LET parent_block_height == o.parent_block_ptr
        total_committed == o.burn_fee + o.sunset_burn
    IN
    IF total_committed > U64_MAX THEN Panic
    ELSE IF o.sunset_burn < expected_sunset_burn(burnchain, o.block_height, total_committed)
    THEN Err("BlockCommitBadOutputs")
    ELSE IF reward_set_info.is_some THEN
        LET rsi == reward_set_info.value IN
        IF is_in_prepare_phase(burnchain, o.block_height) THEN
            IF check_prepare_commit_burn(o) # Ok THEN Err("BlockCommitBadOutputs") ELSE Ok
        ELSE
            LET recipient_set_all_burns ==
                    fold_is_burn([i \in 1..Len(rsi.recipients) |-> rsi.recipients[i][1]])
            IN
            IF recipient_set_all_burns THEN
                IF ~all_outputs_burn(o) THEN Err("BlockCommitBadOutputs") ELSE Ok
            ELSE
                LET check_recipients == check_recipients_of(burnchain, rsi)
                    outputs_rejected ==
                        /\ ~all_outputs_burn(o)
                        /\ \/ Len(o.commit_outs) # Len(check_recipients)
                           \/ sorted_zip_differs(o.commit_outs, check_recipients)
                    expect_pox_descendant == ~all_outputs_burn(o)
                    descended_from_anchor == descended_from(view, parent_block_height, rsi.anchor_block)
                IN
                IF outputs_rejected THEN Err("BlockCommitBadOutputs")
                ELSE IF descended_from_anchor = "DBError" THEN Err("BlockCommitAnchorCheck")
                ELSE IF expect_pox_descendant /\ descended_from_anchor # "true"
                THEN Err("BlockCommitBadOutputs")
                ELSE Ok
    ELSE
        IF ~all_outputs_burn(o) THEN Err("BlockCommitBadOutputs") ELSE Ok

\* check_pox, asking for the descent before it compares the outputs
check_pox_descent_first(o, burnchain, view, reward_set_info) ==
    LET parent_block_height == o.parent_block_ptr
        total_committed == o.burn_fee + o.sunset_burn
    IN
    IF total_committed > U64_MAX THEN Panic
    ELSE IF o.sunset_burn < expected_sunset_burn(burnchain, o.block_height, total_committed)
    THEN Err("BlockCommitBadOutputs")
    ELSE IF reward_set_info.is_some THEN
        LET rsi == reward_set_info.value IN
        IF is_in_prepare_phase(burnchain, o.block_height) THEN
            IF check_prepare_commit_burn(o) # Ok THEN Err("BlockCommitBadOutputs") ELSE Ok
        ELSE
            LET recipient_set_all_burns ==
                    fold_is_burn([i \in 1..Len(rsi.recipients) |-> rsi.recipients[i][1]])
            IN
            IF recipient_set_all_burns THEN
                IF ~all_outputs_burn(o) THEN Err("BlockCommitBadOutputs") ELSE Ok
            ELSE
                LET check_recipients == check_recipients_of(burnchain, rsi)
                    outputs_rejected ==
                        /\ ~all_outputs_burn(o)
                        /\ \/ Len(o.commit_outs) # Len(check_recipients)
                           \/ sorted_zip_differs(o.commit_outs, check_recipients)
                    expect_pox_descendant == ~all_outputs_burn(o)
                    descended_from_anchor == descended_from(view, parent_block_height, rsi.anchor_block)
                IN
                IF descended_from_anchor = "DBError" THEN Err("BlockCommitAnchorCheck")
                ELSE IF outputs_rejected THEN Err("BlockCommitBadOutputs")
                ELSE IF (descended_from_anchor = "true") # expect_pox_descendant
                THEN Err("BlockCommitBadOutputs")
                ELSE Ok
    ELSE
        IF ~all_outputs_burn(o) THEN Err("BlockCommitBadOutputs") ELSE Ok

check_pox(o, burnchain, view, reward_set_info) ==
    LET parent_block_height == o.parent_block_ptr
        total_committed == o.burn_fee + o.sunset_burn
    IN
    IF total_committed > U64_MAX THEN Panic
    ELSE IF o.sunset_burn < expected_sunset_burn(burnchain, o.block_height, total_committed)
    THEN Err("BlockCommitBadOutputs")
    ELSE IF reward_set_info.is_some THEN
        LET rsi == reward_set_info.value IN
        IF is_in_prepare_phase(burnchain, o.block_height) THEN
            IF check_prepare_commit_burn(o) # Ok THEN Err("BlockCommitBadOutputs") ELSE Ok
        ELSE
            LET recipient_set_all_burns ==
                    fold_is_burn([i \in 1..Len(rsi.recipients) |-> rsi.recipients[i][1]])
            IN
            IF recipient_set_all_burns THEN
                IF ~all_outputs_burn(o) THEN Err("BlockCommitBadOutputs") ELSE Ok
            ELSE
                LET check_recipients == check_recipients_of(burnchain, rsi)
                    outputs_rejected ==
                        /\ ~all_outputs_burn(o)
                        /\ \/ Len(o.commit_outs) # Len(check_recipients)
                           \/ sorted_zip_differs(o.commit_outs, check_recipients)
                    expect_pox_descendant == ~all_outputs_burn(o)
                    descended_from_anchor == descended_from(view, parent_block_height, rsi.anchor_block)
                IN
                IF outputs_rejected THEN Err("BlockCommitBadOutputs")
                ELSE IF descended_from_anchor = "DBError" THEN Err("BlockCommitAnchorCheck")
                ELSE IF (descended_from_anchor = "true") # expect_pox_descendant
                THEN Err("BlockCommitBadOutputs")
                ELSE Ok
    ELSE
        IF ~all_outputs_burn(o) THEN Err("BlockCommitBadOutputs") ELSE Ok

(***************************************************************************)
(* check: the ordered guards                                               *)
(***************************************************************************)

\* check_burn, with the comparison of the fee turned strict
check_burn_strict(o) == IF o.burn_fee < 0 THEN Err("BlockCommitBadInput") ELSE Ok

\* "There must be a burn"
check_burn(o) == IF o.burn_fee = 0 THEN Err("BlockCommitBadInput") ELSE Ok

\* miss_distance_of, measuring from the modulus of the parent burn block
miss_distance_from_parent(actual_modulus, intended_modulus) ==
    IF actual_modulus >= intended_modulus
    THEN actual_modulus - intended_modulus + 1
    ELSE BURN_BLOCK_MINED_AT_MODULUS + actual_modulus - intended_modulus + 1

\* how many blocks ago the commit's intended burn block was
miss_distance_of(actual_modulus, intended_modulus) ==
    IF actual_modulus > intended_modulus
    THEN actual_modulus - intended_modulus
    ELSE BURN_BLOCK_MINED_AT_MODULUS + actual_modulus - intended_modulus

\* check_modulus, looking the ancestor up one block too late
check_modulus_late_ancestor(o, view) ==
    LET intended_modulus == (burn_block_mined_at(o) + 1) % BURN_BLOCK_MINED_AT_MODULUS
        actual_modulus == o.block_height % BURN_BLOCK_MINED_AT_MODULUS
        miss_distance == miss_distance_of(actual_modulus, intended_modulus)
    IN
    IF actual_modulus # intended_modulus THEN
        IF miss_distance > o.block_height THEN Err("BlockCommitBadModulus")
        ELSE
            LET intended_sortition ==
                    get_ancestor_block_hash(view.snapshots, o.block_height - miss_distance + 1)
            IN  IF ~intended_sortition.is_some THEN Err("BlockCommitNoParent")
                ELSE MissedBlockCommit(o.txid, o.input, intended_sortition.value)
    ELSE Ok

\* the commit missed its target burn block
check_modulus(o, view) ==
    LET intended_modulus == (burn_block_mined_at(o) + 1) % BURN_BLOCK_MINED_AT_MODULUS
        actual_modulus == o.block_height % BURN_BLOCK_MINED_AT_MODULUS
        miss_distance == miss_distance_of(actual_modulus, intended_modulus)
    IN
    IF actual_modulus # intended_modulus THEN
        IF miss_distance > o.block_height THEN Err("BlockCommitBadModulus")
        ELSE
            LET intended_sortition ==
                    get_ancestor_block_hash(view.snapshots, o.block_height - miss_distance)
            IN  IF ~intended_sortition.is_some THEN Err("BlockCommitNoParent")
                ELSE MissedBlockCommit(o.txid, o.input, intended_sortition.value)
    ELSE Ok

\* the PoX / burn outputs
check_outputs(o, burnchain, view, reward_set_info) ==
    IF o.block_height >= burnchain.sunset_end
    THEN check_after_pox_sunset(o)
    ELSE check_pox(o, burnchain, view, reward_set_info)

\* check_genesis, letting every height through
check_genesis_any_height(o, view) ==
    LET first_block_snapshot == get_first_block_snapshot(view.snapshots)
    IN  IF o.block_height < 0
        THEN Err("BlockCommitPredatesGenesis")
        ELSE Ok

\* "This tx must occur after the start of the network"
check_genesis(o, view) ==
    LET first_block_snapshot == get_first_block_snapshot(view.snapshots)
    IN  IF o.block_height < first_block_snapshot.block_height
        THEN Err("BlockCommitPredatesGenesis")
        ELSE Ok

\* check_unique, asking for any stored commit to the block hash
check_unique_any_commit(o, view) ==
    IF \E c \in view.block_commits : c.block_header_hash = o.block_header_hash
    THEN Err("BlockCommitAlreadyExists") ELSE Ok

\* "Block must be unique in this burnchain fork"
check_unique(o, view) ==
    LET is_already_committed == expects_stacks_block_in_fork(view.snapshots, o.block_header_hash)
    IN  IF is_already_committed THEN Err("BlockCommitAlreadyExists") ELSE Ok

\* check_leader_key, letting a key of the commit's own block through
check_leader_key_same_block(o, view) ==
    LET leader_key_block_height == o.key_block_ptr
    IN  IF leader_key_block_height > o.block_height THEN Err("BlockCommitNoLeaderKey")
        ELSE IF ~get_leader_key_at(view.leader_keys, leader_key_block_height, o.key_vtxindex).is_some
        THEN Err("BlockCommitNoLeaderKey")
        ELSE Ok

\* "There must exist a previously-accepted key from a LeaderKeyRegister"
check_leader_key(o, view) ==
    LET leader_key_block_height == o.key_block_ptr
    IN  IF leader_key_block_height >= o.block_height THEN Err("BlockCommitNoLeaderKey")
        ELSE IF ~get_leader_key_at(view.leader_keys, leader_key_block_height, o.key_vtxindex).is_some
        THEN Err("BlockCommitNoLeaderKey")
        ELSE Ok

\* check_parent, taking a parent with one zero field for genesis
check_parent_either_zero(o, view) ==
    LET parent_block_height == o.parent_block_ptr
    IN  IF parent_block_height = o.block_height THEN Err("BlockCommitNoParent")
        ELSE IF o.parent_block_ptr # 0 /\ o.parent_vtxindex # 0 THEN
            LET has_parent ==
                    get_block_commit_parent(view.block_commits, parent_block_height, o.parent_vtxindex).is_some
            IN  IF ~has_parent THEN Err("BlockCommitNoParent") ELSE Ok
        ELSE Ok

\* "There must exist a previously-accepted block from a LeaderBlockCommit, or
\* this LeaderBlockCommit must build off of the genesis block"
check_parent(o, view) ==
    LET parent_block_height == o.parent_block_ptr
    IN  IF parent_block_height = o.block_height THEN Err("BlockCommitNoParent")
        ELSE IF o.parent_block_ptr # 0 \/ o.parent_vtxindex # 0 THEN
            LET has_parent ==
                    get_block_commit_parent(view.block_commits, parent_block_height, o.parent_vtxindex).is_some
            IN  IF ~has_parent THEN Err("BlockCommitNoParent") ELSE Ok
        ELSE Ok

\* check_epoch, accepting the Epoch 2.05 marker only when it equals the constant
check_epoch_exact_marker(o, view) ==
    LET epoch == get_stacks_epoch(view.epochs, o.block_height)
    IN  IF ~epoch.is_some THEN Panic
        ELSE IF epoch.value.epoch_id = "Epoch10" THEN Panic
        ELSE IF epoch.value.epoch_id = "Epoch20" THEN Ok
        ELSE IF Len(o.memo) < 1 THEN Err("BlockCommitBadEpoch")
        ELSE IF o.memo[1] # STACKS_EPOCH_2_05_MARKER THEN Err("BlockCommitBadEpoch")
        ELSE Ok

\* check_epoch, enforcing the marker in Epoch 2.0 as well
check_epoch_enforced_early(o, view) ==
    LET epoch == get_stacks_epoch(view.epochs, o.block_height)
    IN  IF ~epoch.is_some THEN Panic
        ELSE IF epoch.value.epoch_id = "Epoch10" THEN Panic
        ELSE IF Len(o.memo) < 1 THEN Err("BlockCommitBadEpoch")
        ELSE IF o.memo[1] < STACKS_EPOCH_2_05_MARKER THEN Err("BlockCommitBadEpoch")
        ELSE Ok

\* check_epoch, turning a commit of the pre-genesis epoch away as a bad epoch
check_epoch_rejecting_epoch10(o, view) ==
    LET epoch == get_stacks_epoch(view.epochs, o.block_height)
    IN  IF ~epoch.is_some THEN Panic
        ELSE IF epoch.value.epoch_id = "Epoch10" THEN Err("BlockCommitBadEpoch")
        ELSE IF epoch.value.epoch_id = "Epoch20" THEN Ok
        ELSE IF Len(o.memo) < 1 THEN Err("BlockCommitBadEpoch")
        ELSE IF o.memo[1] < STACKS_EPOCH_2_05_MARKER THEN Err("BlockCommitBadEpoch")
        ELSE Ok

\* the epoch marker in the memo
check_epoch(o, view) ==
    LET epoch == get_stacks_epoch(view.epochs, o.block_height)
    IN  IF ~epoch.is_some THEN Panic
        ELSE IF epoch.value.epoch_id = "Epoch10" THEN Panic
        ELSE IF epoch.value.epoch_id = "Epoch20" THEN Ok
        ELSE IF Len(o.memo) < 1 THEN Err("BlockCommitBadEpoch")
        ELSE IF o.memo[1] < STACKS_EPOCH_2_05_MARKER THEN Err("BlockCommitBadEpoch")
        ELSE Ok

\* check, with the parent looked up before the leader key
check_parent_before_key(o, burnchain, view, reward_set_info) ==
    IF check_burn(o) # Ok THEN check_burn(o)
    ELSE IF check_modulus(o, view) # Ok THEN check_modulus(o, view)
    ELSE IF check_outputs(o, burnchain, view, reward_set_info) # Ok
    THEN check_outputs(o, burnchain, view, reward_set_info)
    ELSE IF check_genesis(o, view) # Ok THEN check_genesis(o, view)
    ELSE IF check_unique(o, view) # Ok THEN check_unique(o, view)
    ELSE IF check_parent(o, view) # Ok THEN check_parent(o, view)
    ELSE IF check_leader_key(o, view) # Ok THEN check_leader_key(o, view)
    ELSE check_epoch(o, view)

\* check, with the outputs looked at before the slot timing
check_outputs_before_modulus(o, burnchain, view, reward_set_info) ==
    IF check_burn(o) # Ok THEN check_burn(o)
    ELSE IF check_outputs(o, burnchain, view, reward_set_info) # Ok
    THEN check_outputs(o, burnchain, view, reward_set_info)
    ELSE IF check_modulus(o, view) # Ok THEN check_modulus(o, view)
    ELSE IF check_genesis(o, view) # Ok THEN check_genesis(o, view)
    ELSE IF check_unique(o, view) # Ok THEN check_unique(o, view)
    ELSE IF check_leader_key(o, view) # Ok THEN check_leader_key(o, view)
    ELSE IF check_parent(o, view) # Ok THEN check_parent(o, view)
    ELSE check_epoch(o, view)

check(o, burnchain, view, reward_set_info) ==
    IF check_burn(o) # Ok THEN check_burn(o)
    ELSE IF check_modulus(o, view) # Ok THEN check_modulus(o, view)
    ELSE IF check_outputs(o, burnchain, view, reward_set_info) # Ok
    THEN check_outputs(o, burnchain, view, reward_set_info)
    ELSE IF check_genesis(o, view) # Ok THEN check_genesis(o, view)
    ELSE IF check_unique(o, view) # Ok THEN check_unique(o, view)
    ELSE IF check_leader_key(o, view) # Ok THEN check_leader_key(o, view)
    ELSE IF check_parent(o, view) # Ok THEN check_parent(o, view)
    ELSE check_epoch(o, view)

(***************************************************************************)
(* Wire codec                                                              *)
(***************************************************************************)

\* a 32-byte hash (BlockHeaderHash, VRFSeed) as its bytes
Hash(k) == [i \in 1..32 |-> k]

from_bytes(bytes) == bytes

as_bytes(h) == h

\* write_next of a big-endian unsigned integer of n bytes
RECURSIVE to_be_bytes(_, _)
to_be_bytes(v, n) ==
    IF n = 0 THEN <<>> ELSE Append(to_be_bytes(v \div 256, n - 1), v % 256)

\* parse_u32_from_be / parse_u16_from_be
RECURSIVE parse_from_be(_)
parse_from_be(bytes) ==
    IF bytes = <<>> THEN 0
    ELSE parse_from_be(SubSeq(bytes, 1, Len(bytes) - 1)) * 256 + bytes[Len(bytes)]

\* memo.get(0).copied().unwrap_or(0x00)
memo_get0(memo) == IF Len(memo) > 0 THEN memo[1] ELSE 0

\* consensus_serialize, with the memo shifted by two bits
consensus_serialize_short_shift(o) ==
    LET memo_burn_parent_modulus ==
            ((memo_get0(o.memo) * 4) % 256) + (o.burn_parent_modulus % 8)
    IN  <<OPCODE_LEADER_BLOCK_COMMIT>>
        \o as_bytes(o.block_header_hash)
        \o as_bytes(o.new_seed)
        \o to_be_bytes(o.parent_block_ptr, 4)
        \o to_be_bytes(o.parent_vtxindex, 2)
        \o to_be_bytes(o.key_block_ptr, 4)
        \o to_be_bytes(o.key_vtxindex, 2)
        \o <<memo_burn_parent_modulus>>

\* the bytes consensus_serialize writes, opcode first
consensus_serialize(o) ==
    LET memo_burn_parent_modulus ==
            ((memo_get0(o.memo) * 8) % 256) + (o.burn_parent_modulus % 8)
    IN  <<OPCODE_LEADER_BLOCK_COMMIT>>
        \o as_bytes(o.block_header_hash)
        \o as_bytes(o.new_seed)
        \o to_be_bytes(o.parent_block_ptr, 4)
        \o to_be_bytes(o.parent_vtxindex, 2)
        \o to_be_bytes(o.key_block_ptr, 4)
        \o to_be_bytes(o.key_vtxindex, 2)
        \o <<memo_burn_parent_modulus>>

\* data[lo..hi] of Rust (0-based, hi exclusive); the slice panics when out of range
slice_in_range(data, hi) == hi <= Len(data)

slice(data, lo, hi) == SubSeq(data, lo + 1, hi)

\* parse_data, with the length test one byte short
parse_data_short_test(data) ==
    IF Len(data) < PAYLOAD_LEN - 1 THEN [tag |-> "None"]
    ELSE IF ~slice_in_range(data, 77) THEN [tag |-> "Panic"]
    ELSE
        LET burn_parent_modulus_and_memo_byte == data[77]
        IN  [tag |-> "Some",
             block_header_hash |-> from_bytes(slice(data, 0, 32)),
             new_seed |-> from_bytes(slice(data, 32, 64)),
             parent_block_ptr |-> parse_from_be(slice(data, 64, 68)),
             parent_vtxindex |-> parse_from_be(slice(data, 68, 70)),
             key_block_ptr |-> parse_from_be(slice(data, 70, 74)),
             key_vtxindex |-> parse_from_be(slice(data, 74, 76)),
             burn_parent_modulus |->
                 (burn_parent_modulus_and_memo_byte % 8) % BURN_BLOCK_MINED_AT_MODULUS,
             memo |-> (burn_parent_modulus_and_memo_byte \div 8) % 32]

\* Option<ParsedData>; `data` is the payload after magic and opcode
parse_data(data) ==
    IF Len(data) < PAYLOAD_LEN THEN [tag |-> "None"]
    ELSE IF ~slice_in_range(data, 77) THEN [tag |-> "Panic"]
    ELSE
        LET burn_parent_modulus_and_memo_byte == data[77]
        IN  [tag |-> "Some",
             block_header_hash |-> from_bytes(slice(data, 0, 32)),
             new_seed |-> from_bytes(slice(data, 32, 64)),
             parent_block_ptr |-> parse_from_be(slice(data, 64, 68)),
             parent_vtxindex |-> parse_from_be(slice(data, 68, 70)),
             key_block_ptr |-> parse_from_be(slice(data, 70, 74)),
             key_vtxindex |-> parse_from_be(slice(data, 74, 76)),
             burn_parent_modulus |->
                 (burn_parent_modulus_and_memo_byte % 8) % BURN_BLOCK_MINED_AT_MODULUS,
             memo |-> (burn_parent_modulus_and_memo_byte \div 8) % 32]

(***************************************************************************)
(* parse_from_tx: the transaction classifier                               *)
(***************************************************************************)
num_signers(t) == Len(t.inputs)

\* the loop over the first OUTPUTS_PER_COMMIT outputs: the commit_outs and
\* pox_fee it ends with, or the ParseError it returns
RECURSIVE scan_outputs(_, _, _, _)
scan_outputs(outputs, ix, pox_fee, commit_outs) ==
    IF ix > Len(outputs) \/ ix - 1 >= OUTPUTS_PER_COMMIT
    THEN [err |-> FALSE, pox_fee |-> pox_fee, commit_outs |-> commit_outs]
    ELSE IF pox_fee.is_some /\ outputs[ix].amount # pox_fee.value
    THEN [err |-> TRUE, pox_fee |-> pox_fee, commit_outs |-> commit_outs]
    ELSE scan_outputs(outputs, ix + 1,
                      IF pox_fee.is_some THEN pox_fee ELSE Some(outputs[ix].amount),
                      Append(commit_outs, outputs[ix].address))

\* phase_outputs, without the comparison of the scanned amounts
phase_outputs_ignoring_mismatch(burnchain, block_height, t) ==
    LET outputs == t.outputs IN
    IF block_height >= burnchain.sunset_end THEN
        IF ~is_burn(outputs[1].address) THEN Err("BlockCommitBadOutputs")
        ELSE OkOp(<<<<outputs[1].address>>, 0, outputs[1].amount>>)
    ELSE IF is_in_prepare_phase(burnchain, block_height) THEN
        IF ~is_burn(outputs[1].address) THEN Err("BlockCommitBadOutputs")
        ELSE OkOp(<<<<outputs[1].address>>, 0, outputs[1].amount>>)
    ELSE
        LET sunset_burn == t.burn_amount
            scanned == scan_outputs(outputs, 1, None, <<>>)
        IN
        IF FALSE THEN Err("ParseError")
        ELSE IF Len(scanned.commit_outs) # OUTPUTS_PER_COMMIT THEN Err("InvalidInput")
        ELSE IF ~scanned.pox_fee.is_some THEN Panic
        ELSE IF scanned.pox_fee.value * OUTPUTS_PER_COMMIT > U64_MAX THEN Err("ParseError")
        ELSE IF scanned.pox_fee.value * OUTPUTS_PER_COMMIT = 0 THEN Err("ParseError")
        ELSE OkOp(<<scanned.commit_outs, sunset_burn, scanned.pox_fee.value * OUTPUTS_PER_COMMIT>>)

\* phase_outputs, taking the amount of one output as the burn fee
phase_outputs_single_fee(burnchain, block_height, t) ==
    LET outputs == t.outputs IN
    IF block_height >= burnchain.sunset_end THEN
        IF ~is_burn(outputs[1].address) THEN Err("BlockCommitBadOutputs")
        ELSE OkOp(<<<<outputs[1].address>>, 0, outputs[1].amount>>)
    ELSE IF is_in_prepare_phase(burnchain, block_height) THEN
        IF ~is_burn(outputs[1].address) THEN Err("BlockCommitBadOutputs")
        ELSE OkOp(<<<<outputs[1].address>>, 0, outputs[1].amount>>)
    ELSE
        LET sunset_burn == t.burn_amount
            scanned == scan_outputs(outputs, 1, None, <<>>)
        IN
        IF scanned.err THEN Err("ParseError")
        ELSE IF Len(scanned.commit_outs) # OUTPUTS_PER_COMMIT THEN Err("InvalidInput")
        ELSE IF ~scanned.pox_fee.is_some THEN Panic
        ELSE IF scanned.pox_fee.value * OUTPUTS_PER_COMMIT > U64_MAX THEN Err("ParseError")
        ELSE IF scanned.pox_fee.value * OUTPUTS_PER_COMMIT = 0 THEN Err("ParseError")
        ELSE OkOp(<<scanned.commit_outs, sunset_burn, scanned.pox_fee.value>>)

\* phase_outputs, without the prepare-phase branch
phase_outputs_prepare_as_reward(burnchain, block_height, t) ==
    LET outputs == t.outputs IN
    IF block_height >= burnchain.sunset_end THEN
        IF ~is_burn(outputs[1].address) THEN Err("BlockCommitBadOutputs")
        ELSE OkOp(<<<<outputs[1].address>>, 0, outputs[1].amount>>)
    ELSE IF FALSE THEN
        IF ~is_burn(outputs[1].address) THEN Err("BlockCommitBadOutputs")
        ELSE OkOp(<<<<outputs[1].address>>, 0, outputs[1].amount>>)
    ELSE
        LET sunset_burn == t.burn_amount
            scanned == scan_outputs(outputs, 1, None, <<>>)
        IN
        IF scanned.err THEN Err("ParseError")
        ELSE IF Len(scanned.commit_outs) # OUTPUTS_PER_COMMIT THEN Err("InvalidInput")
        ELSE IF ~scanned.pox_fee.is_some THEN Panic
        ELSE IF scanned.pox_fee.value * OUTPUTS_PER_COMMIT > U64_MAX THEN Err("ParseError")
        ELSE IF scanned.pox_fee.value * OUTPUTS_PER_COMMIT = 0 THEN Err("ParseError")
        ELSE OkOp(<<scanned.commit_outs, sunset_burn, scanned.pox_fee.value * OUTPUTS_PER_COMMIT>>)

\* (commit_outs, sunset_burn, burn_fee) of the phase, or the error
phase_outputs(burnchain, block_height, t) ==
    LET outputs == t.outputs IN
    IF block_height >= burnchain.sunset_end THEN
        IF ~is_burn(outputs[1].address) THEN Err("BlockCommitBadOutputs")
        ELSE OkOp(<<<<outputs[1].address>>, 0, outputs[1].amount>>)
    ELSE IF is_in_prepare_phase(burnchain, block_height) THEN
        IF ~is_burn(outputs[1].address) THEN Err("BlockCommitBadOutputs")
        ELSE OkOp(<<<<outputs[1].address>>, 0, outputs[1].amount>>)
    ELSE
        LET sunset_burn == t.burn_amount
            scanned == scan_outputs(outputs, 1, None, <<>>)
        IN
        IF scanned.err THEN Err("ParseError")
        ELSE IF Len(scanned.commit_outs) # OUTPUTS_PER_COMMIT THEN Err("InvalidInput")
        ELSE IF ~scanned.pox_fee.is_some THEN Panic
        ELSE IF scanned.pox_fee.value * OUTPUTS_PER_COMMIT > U64_MAX THEN Err("ParseError")
        ELSE IF scanned.pox_fee.value * OUTPUTS_PER_COMMIT = 0 THEN Err("ParseError")
        ELSE OkOp(<<scanned.commit_outs, sunset_burn, scanned.pox_fee.value * OUTPUTS_PER_COMMIT>>)

\* parse_from_tx, checking the outputs of the phase before the key pointer
parse_from_tx_outputs_before_key(burnchain, block_height, block_hash, t) ==
    LET outputs == t.outputs
        data == parse_data(t.data)
    IN
    IF num_signers(t) = 0 THEN Err("InvalidInput")
    ELSE IF Len(outputs) = 0 THEN Err("InvalidInput")
    ELSE IF t.opcode # OPCODE_LEADER_BLOCK_COMMIT THEN Err("InvalidInput")
    ELSE IF data.tag = "Panic" THEN Panic
    ELSE IF data.tag = "None" THEN Err("ParseError")
    ELSE IF data.parent_block_ptr = 0 /\ data.parent_vtxindex # 0 THEN Err("ParseError")
    ELSE IF data.parent_block_ptr >= block_height THEN Err("ParseError")
    ELSE IF phase_outputs(burnchain, block_height, t).tag # "Ok"
    THEN phase_outputs(burnchain, block_height, t)
    ELSE IF data.key_block_ptr = 0 THEN Err("ParseError")
    ELSE IF data.key_block_ptr >= block_height THEN Err("ParseError")
    ELSE
        LET phase == phase_outputs(burnchain, block_height, t) IN
        OkOp([block_header_hash |-> data.block_header_hash,
              new_seed |-> data.new_seed,
              parent_block_ptr |-> data.parent_block_ptr,
              parent_vtxindex |-> data.parent_vtxindex,
              key_block_ptr |-> data.key_block_ptr,
              key_vtxindex |-> data.key_vtxindex,
              memo |-> <<data.memo>>,
              burn_parent_modulus |-> data.burn_parent_modulus,
              commit_outs |-> phase.data[1][1],
              sunset_burn |-> phase.data[1][2],
              burn_fee |-> phase.data[1][3],
              input |-> t.inputs[1].tx_ref,
              apparent_sender |-> t.inputs[1].signer,
              txid |-> t.txid,
              vtxindex |-> t.vtxindex,
              block_height |-> block_height,
              burn_header_hash |-> block_hash])

parse_from_tx(burnchain, block_height, block_hash, t) ==
    LET outputs == t.outputs
        data == parse_data(t.data)
    IN
    IF num_signers(t) = 0 THEN Err("InvalidInput")
    ELSE IF Len(outputs) = 0 THEN Err("InvalidInput")
    ELSE IF t.opcode # OPCODE_LEADER_BLOCK_COMMIT THEN Err("InvalidInput")
    ELSE IF data.tag = "Panic" THEN Panic
    ELSE IF data.tag = "None" THEN Err("ParseError")
    ELSE IF data.parent_block_ptr = 0 /\ data.parent_vtxindex # 0 THEN Err("ParseError")
    ELSE IF data.parent_block_ptr >= block_height THEN Err("ParseError")
    ELSE IF data.key_block_ptr = 0 THEN Err("ParseError")
    ELSE IF data.key_block_ptr >= block_height THEN Err("ParseError")
    ELSE
        LET phase == phase_outputs(burnchain, block_height, t) IN
        IF phase.tag # "Ok" THEN phase
        ELSE
            OkOp([block_header_hash |-> data.block_header_hash,
                  new_seed |-> data.new_seed,
                  parent_block_ptr |-> data.parent_block_ptr,
                  parent_vtxindex |-> data.parent_vtxindex,
                  key_block_ptr |-> data.key_block_ptr,
                  key_vtxindex |-> data.key_vtxindex,
                  memo |-> <<data.memo>>,
                  burn_parent_modulus |-> data.burn_parent_modulus,
                  commit_outs |-> phase.data[1][1],
                  sunset_burn |-> phase.data[1][2],
                  burn_fee |-> phase.data[1][3],
                  input |-> t.inputs[1].tx_ref,
                  apparent_sender |-> t.inputs[1].signer,
                  txid |-> t.txid,
                  vtxindex |-> t.vtxindex,
                  block_height |-> block_height,
                  burn_header_hash |-> block_hash])

(***************************************************************************)
(* Values the calls are made with                                          *)
(***************************************************************************)
NoOp == [block_height |-> 0]
NoEnv == [call |-> "none"]
NoResult == [tag |-> "none", data |-> <<>>]
NoTx == [txid |-> 0]
NoBlock == [ops |-> <<>>]

KEY_VTXINDEX == 456     \* position of a leader-key registration in its block
COMMIT_VTXINDEX == 444  \* position of a block commit in its block

ADDR_A == Addr(VERSION_TESTNET, 1)
ADDR_B == Addr(VERSION_TESTNET, 2)

Signer == [num_sigs |-> 1]

tip_height(snaps) == chain_tip(snaps).block_height

\* the burn_parent_modulus of a commit mined for block `height`
modulus_for(height) ==
    IF height > 0 THEN (height - 1) % BURN_BLOCK_MINED_AT_MODULUS
    ELSE BURN_BLOCK_MINED_AT_MODULUS - 1

MkOp(height, fee, modulus, key, parent, hash, memo, outs, sunset_burn) ==
    [block_header_hash |-> hash,
     new_seed |-> Hash(3),
     parent_block_ptr |-> parent[1],
     parent_vtxindex |-> parent[2],
     key_block_ptr |-> key[1],
     key_vtxindex |-> key[2],
     memo |-> memo,
     burn_parent_modulus |-> modulus,
     commit_outs |-> outs,
     sunset_burn |-> sunset_burn,
     burn_fee |-> fee,
     input |-> <<7, 0>>,
     apparent_sender |-> Signer,
     txid |-> 9,
     vtxindex |-> COMMIT_VTXINDEX,
     block_height |-> height,
     burn_header_hash |-> BurnHash(height)]

\* the heights the references of an operation point at: the first and the
\* last block a fork can store
StoredHeights == {FirstBlockHeight + 1, MaxTip}

Memos == {<<>>, <<STACKS_EPOCH_2_05_MARKER - 1>>, <<STACKS_EPOCH_2_05_MARKER>>,
          <<STACKS_EPOCH_2_05_MARKER + 1>>}

\* PoX never sunsets, no prepare phase, no sunset burn
BurnchainPlain ==
    [sunset_end |-> STACKS_EPOCH_MAX, prepare_heights |-> {}, mainnet |-> FALSE,
     sunset_progress |-> 0, sunset_duration |-> 1]

EnvPlain ==
    [call |-> "check", burnchain |-> BurnchainPlain, reward_set_info |-> None,
     descended |-> "false"]

\* PoX has sunset at every height
BurnchainSunset == [BurnchainPlain EXCEPT !.sunset_end = 0]

\* every height is a prepare-phase height
BurnchainPrepare == [BurnchainPlain EXCEPT !.prepare_heights = 0..(MaxTip + 2)]

\* the sunset has progressed: the whole commitment is due as sunset burn
BurnchainSunsetDue == [BurnchainPlain EXCEPT !.sunset_progress = 1]

RewardSet(recipients) ==
    Some([anchor_block |-> Hash(4), recipients |-> recipients])

\* operations that vary burn fee and slot timing; the references either all
\* resolve in a fork that stores them or all dangle
TimingOps(tip) ==
    {MkOp(h, fee, m, refs[1], refs[2], refs[3], refs[4], outs, 0) :
        h \in {1, tip, tip + 1},
        fee \in {0, 1},
        m \in 0..(BURN_BLOCK_MINED_AT_MODULUS - 1),
        refs \in {<< <<FirstBlockHeight + 1, KEY_VTXINDEX>>, <<0, 0>>, Hash(1),
                     <<STACKS_EPOCH_2_05_MARKER>> >>,
                  << <<MaxTip, COMMIT_VTXINDEX>>, <<0, COMMIT_VTXINDEX>>, Hash(2), <<>> >>},
        outs \in {<<>>, <<ADDR_A>>}}

\* operations mined for their slot, without outputs, that vary the
\* references, the block hash and the memo
ReferenceOps(tip) ==
    {MkOp(h, 1, modulus_for(h), <<kp, kv>>, <<pp, pv>>, hash, memo, <<>>, 0) :
        h \in {1, tip, tip + 1},
        kp \in StoredHeights, kv \in {KEY_VTXINDEX, COMMIT_VTXINDEX},
        pp \in {0} \cup StoredHeights, pv \in {0, COMMIT_VTXINDEX},
        hash \in {Hash(1), Hash(2)},
        memo \in Memos}

\* operations for the next block that vary outputs and amounts
OutputOps(tip) ==
    {MkOp(tip + 1, fee, modulus_for(tip + 1), key, <<0, 0>>, Hash(1),
          <<STACKS_EPOCH_2_05_MARKER>>, outs, sunset_burn) :
        fee \in {1, U64_MAX},
        sunset_burn \in {0, 1},
        key \in {<<FirstBlockHeight + 1, KEY_VTXINDEX>>, <<MaxTip, COMMIT_VTXINDEX>>},
        outs \in {<<>>, <<burn_address(FALSE)>>, <<ADDR_A>>, <<ADDR_A, ADDR_B>>,
                  <<ADDR_B, ADDR_A>>, <<ADDR_A, burn_address(FALSE)>>}}

OutputEnvs ==
    {[call |-> "check", burnchain |-> b, reward_set_info |-> None, descended |-> "false"] :
        b \in {BurnchainPlain, BurnchainSunset, BurnchainSunsetDue}}
    \cup
    {[call |-> "check", burnchain |-> BurnchainPlain,
      reward_set_info |-> RewardSet(<<<<ADDR_A, 1>>, <<ADDR_B, 1>>>>), descended |-> d] :
        d \in {"true", "false", "DBError"}}
    \cup
    {[call |-> "check", burnchain |-> BurnchainPrepare,
      reward_set_info |-> RewardSet(<<<<ADDR_A, 1>>, <<ADDR_B, 1>>>>), descended |-> "true"]}

CheckInputs(tip) ==
    ((TimingOps(tip) \cup ReferenceOps(tip)) \X {EnvPlain})
    \cup (OutputOps(tip) \X OutputEnvs)

\* the StacksEpoch tables a sortition DB is opened with
EpochTable(epoch20_start, epoch205_start) ==
    <<[epoch_id |-> "Epoch10", start_height |-> 0, end_height |-> epoch20_start],
      [epoch_id |-> "Epoch20", start_height |-> epoch20_start, end_height |-> epoch205_start],
      [epoch_id |-> "Epoch2_05", start_height |-> epoch205_start, end_height |-> STACKS_EPOCH_MAX]>>

EpochTables ==
    {EpochTable(FirstBlockHeight, FirstBlockHeight + 2),
     EpochTable(FirstBlockHeight, MaxTip + 1),
     EpochTable(MaxTip + 1, MaxTip + 2)}

FirstSnapshot ==
    [block_height |-> FirstBlockHeight, sortition_id |-> BurnHash(FirstBlockHeight),
     sortition |-> FALSE, winning_stacks_block_hash |-> Hash(0)]

View(e) ==
    [snapshots |-> snapshots, leader_keys |-> leader_keys, block_commits |-> block_commits,
     epochs |-> epochs, descended |-> e.descended]

(***************************************************************************)
(* The block-processing loop: operations are checked against the fork as   *)
(* it stands; the snapshot of the next block is appended afterwards.       *)
(***************************************************************************)
Init ==
    /\ pc = "idle"
    /\ snapshots = <<FirstSnapshot>>
    /\ leader_keys = {}
    /\ block_commits = {}
    /\ epochs \in EpochTables
    /\ op = NoOp
    /\ env = NoEnv
    /\ result = NoResult
    /\ tx = NoTx
    /\ wire = <<>>
    /\ block = NoBlock

\* Check, storing the operation it accepts
Check_storing_accepted ==
    /\ pc = "idle"
    /\ \E input \in CheckInputs(tip_height(snapshots)) :
        /\ op' = input[1]
        /\ env' = input[2]
        /\ result' = check(input[1], input[2].burnchain, View(input[2]), input[2].reward_set_info)
    /\ pc' = IF result'.tag = "Panic" THEN "aborted" ELSE "checked"
    /\ block_commits' = IF result' = Ok THEN block_commits \cup {[block_height |-> op'.block_height,
                                                                  vtxindex |-> op'.vtxindex,
                                                                  block_header_hash |-> op'.block_header_hash]}
                        ELSE block_commits
    /\ UNCHANGED <<snapshots, leader_keys, epochs, tx, wire, block>>

\* op.check(&burnchain, &mut tx, reward_set_info)
Check ==
    /\ pc = "idle"
    /\ \E input \in CheckInputs(tip_height(snapshots)) :
        /\ op' = input[1]
        /\ env' = input[2]
        /\ result' = check(input[1], input[2].burnchain, View(input[2]), input[2].reward_set_info)
    /\ pc' = IF result'.tag = "Panic" THEN "aborted" ELSE "checked"
    /\ UNCHANGED <<chain_vars, tx, wire, block>>

\* a checked operation is dropped
Discard ==
    /\ pc = "checked"
    /\ pc' = "idle"
    /\ op' = NoOp
    /\ env' = NoEnv
    /\ result' = NoResult
    /\ UNCHANGED <<chain_vars, tx, wire, block>>

\* the row of a stored block commit: the columns the queries of the read view use
StoredCommit(o) ==
    [block_height |-> o.block_height, vtxindex |-> o.vtxindex,
     block_header_hash |-> o.block_header_hash]

\* append_chain_tip_snapshot of the next burn block: its leader keys, the
\* commit accepted for it (if any) and the outcome of its sortition
AppendSnapshot(with_key, with_commit, won) ==
    LET height == tip_height(snapshots) + 1 IN
    /\ pc \in {"idle", "checked"}
    /\ height <= MaxTip
    /\ with_commit => (pc = "checked" /\ result = Ok /\ op.block_height = height)
    /\ won => with_commit
    /\ snapshots' = Append(snapshots,
            [block_height |-> height, sortition_id |-> BurnHash(height),
             sortition |-> won,
             winning_stacks_block_hash |-> IF won THEN op.block_header_hash ELSE Hash(0)])
    /\ leader_keys' = IF with_key THEN leader_keys \cup {<<height, KEY_VTXINDEX>>} ELSE leader_keys
    /\ block_commits' = IF with_commit THEN block_commits \cup {StoredCommit(op)} ELSE block_commits
    /\ pc' = "idle"
    /\ op' = NoOp
    /\ env' = NoEnv
    /\ result' = NoResult
    /\ UNCHANGED <<epochs, tx, wire, block>>

AppendBlock == \E with_key \in BOOLEAN : AppendSnapshot(with_key, FALSE, FALSE)

AcceptCommit == \E with_key, won \in BOOLEAN : AppendSnapshot(with_key, TRUE, won)

Next == Check \/ Discard \/ AppendBlock \/ AcceptCommit

Spec == Init /\ [][Next]_vars

(***************************************************************************)
(* The codec harness: an operation is serialized, the bytes after the      *)
(* opcode (whole, cut short or padded) become the payload of a burnchain   *)
(* transaction, and the payload is decoded and the transaction classified. *)
(***************************************************************************)
MaxPad == 2     \* bytes a payload may carry after the 77 the decoder reads

\* u32 and u16 values with a different byte at every position
PTR_4_BYTES == 1078018627
PTR_2_BYTES == 20561

CodecOp(hash, seed, parent, key, memo, modulus) ==
    [MkOp(PTR_4_BYTES + 2, 2, modulus, key, parent, hash, memo, <<>>, 0)
        EXCEPT !.new_seed = seed]

\* every memo byte and every modulus byte value of three bits
MemoOps ==
    {CodecOp(Hash(34), Hash(51), <<PTR_4_BYTES, PTR_2_BYTES>>, <<PTR_4_BYTES + 1, 1>>,
             memo, modulus) :
        memo \in {<<>>} \cup {<<b>> : b \in 0..255},
        modulus \in 0..7}

\* the other payload fields
FieldOps ==
    {CodecOp(hash, seed, <<pp, pv>>, <<kp, kv>>, memo, 2) :
        hash \in {Hash(34), Hash(51)},
        seed \in {Hash(34), Hash(51)},
        pp \in {0, 1, PTR_4_BYTES, PTR_4_BYTES + 2}, pv \in {0, PTR_2_BYTES},
        kp \in {0, 1, PTR_4_BYTES, PTR_4_BYTES + 2}, kv \in {1, PTR_2_BYTES},
        memo \in {<<>>, <<31>>, <<1, 2>>}}

CodecOps == MemoOps \cup FieldOps

\* the operations whose payload is cut to every length
CutOps ==
    {CodecOp(Hash(34), Hash(51), <<pp, 0>>, <<PTR_4_BYTES, 1>>, <<31>>, 2) : pp \in {0, 1}}

PayloadLens(o) ==
    IF o \in CutOps THEN 0..(PAYLOAD_LEN + MaxPad) ELSE {PAYLOAD_LEN - 1, PAYLOAD_LEN}

\* the first `n` bytes of the payload, padded with zero bytes beyond its end
Payload(bytes, n) ==
    [i \in 1..n |-> IF i <= Len(bytes) THEN bytes[i] ELSE 0]

TxInput == [tx_ref |-> <<7, 0>>, signer |-> Signer]

Output(address, amount) == [address |-> address, amount |-> amount]

\* opcode, inputs and outputs a transaction comes with
TxShells ==
    {<<OPCODE_LEADER_BLOCK_COMMIT, <<TxInput>>, <<Output(ADDR_A, 1), Output(ADDR_B, 1)>>>>,
     <<OPCODE_LEADER_BLOCK_COMMIT, <<TxInput>>, <<Output(burn_address(FALSE), 1)>>>>,
     <<OPCODE_LEADER_BLOCK_COMMIT + 1, <<TxInput>>, <<Output(ADDR_A, 1), Output(ADDR_B, 1)>>>>,
     <<OPCODE_LEADER_BLOCK_COMMIT, <<>>, <<Output(ADDR_A, 1), Output(ADDR_B, 1)>>>>,
     <<OPCODE_LEADER_BLOCK_COMMIT, <<TxInput>>, <<>>>>}

\* the height of the block the transactions are found in
ParseHeight == PTR_4_BYTES + 2

\* PoX sunsets at height `h`
BurnchainSunsetAt(h) == [BurnchainPlain EXCEPT !.sunset_end = h]

\* height `h` is the only prepare-phase height
BurnchainPrepareAt(h) == [BurnchainPlain EXCEPT !.prepare_heights = {h}]

\* burnchains that put ParseHeight after the sunset, in a prepare phase and
\* in the reward phase
ParseBurnchains ==
    {BurnchainPlain, BurnchainSunset,
     BurnchainSunsetAt(ParseHeight), BurnchainSunsetAt(ParseHeight + 1),
     BurnchainPrepareAt(ParseHeight), BurnchainPrepareAt(ParseHeight + 1)}

ParseEnvs ==
    {[call |-> "parse_from_tx", burnchain |-> b, block_height |-> ParseHeight,
      block_hash |-> BurnHash(0)] : b \in ParseBurnchains}

InitCodec ==
    /\ pc = "codec"
    /\ snapshots = <<FirstSnapshot>>
    /\ leader_keys = {}
    /\ block_commits = {}
    /\ epochs = EpochTable(FirstBlockHeight, FirstBlockHeight + 2)
    /\ op = NoOp
    /\ env = NoEnv
    /\ result = NoResult
    /\ tx = NoTx
    /\ wire = <<>>
    /\ block = NoBlock

\* op.consensus_serialize(&mut buffer)
Serialize ==
    /\ pc = "codec"
    /\ \E o \in CodecOps :
        /\ op' = o
        /\ wire' = consensus_serialize(o)
    /\ pc' = "serialized"
    /\ UNCHANGED <<chain_vars, env, result, tx, block>>

\* the burnchain parser hands over a transaction carrying the payload
MakeTx ==
    /\ pc = "serialized"
    /\ \E n \in PayloadLens(op), shell \in TxShells :
        tx' = [txid |-> 9, vtxindex |-> COMMIT_VTXINDEX, opcode |-> shell[1],
               data |-> Payload(Tail(wire), n), inputs |-> shell[2], outputs |-> shell[3],
               burn_amount |-> 0]
    /\ pc' = "tx"
    /\ UNCHANGED <<chain_vars, op, env, result, wire, block>>

\* LeaderBlockCommitOp::parse_data(&tx.data())
ParseData ==
    /\ pc = "tx"
    /\ env' = [call |-> "parse_data"]
    /\ result' = parse_data(tx.data)
    /\ pc' = IF result'.tag = "Panic" THEN "aborted" ELSE "parsed"
    /\ UNCHANGED <<chain_vars, op, tx, wire, block>>

\* LeaderBlockCommitOp::parse_from_tx(burnchain, block_height, block_hash, tx)
ParseFromTx ==
    /\ pc = "tx"
    /\ \E e \in ParseEnvs :
        /\ env' = e
        /\ result' = parse_from_tx(e.burnchain, e.block_height, e.block_hash, tx)
    /\ pc' = IF result'.tag = "Panic" THEN "aborted" ELSE "classified"
    /\ UNCHANGED <<chain_vars, op, tx, wire, block>>

NextCodec == Serialize \/ MakeTx \/ ParseData \/ ParseFromTx

SpecCodec == InitCodec /\ [][NextCodec]_vars

(***************************************************************************)
(* The classifier harness: the transactions of a burn block, with every    *)
(* shape of output list, are classified under each burnchain.              *)
(***************************************************************************)
\* operations whose payload passes, or fails, the checks on the pointers
ClassifyOps ==
    {CodecOp(Hash(34), Hash(51), parent, key, <<STACKS_EPOCH_2_05_MARKER>>, 2) :
        parent \in {<<0, 0>>, <<PTR_4_BYTES, PTR_2_BYTES>>},
        key \in {<<PTR_4_BYTES + 1, 1>>}}
    \cup
    {CodecOp(Hash(34), Hash(51), <<0, 1>>, <<PTR_4_BYTES + 1, 1>>, <<>>, 2),
     CodecOp(Hash(34), Hash(51), <<ParseHeight, 0>>, <<PTR_4_BYTES + 1, 1>>, <<>>, 2),
     CodecOp(Hash(34), Hash(51), <<0, 0>>, <<0, 1>>, <<>>, 2),
     CodecOp(Hash(34), Hash(51), <<0, 0>>, <<ParseHeight, 1>>, <<>>, 2)}

ClassifyAddrs == {burn_address(FALSE), burn_address(TRUE), ADDR_A}

\* amounts around zero, around half of u64::MAX and u64::MAX itself
ClassifyAmounts == {0, 1, U64_MAX \div 2, U64_MAX \div 2 + 1, U64_MAX}

ClassifyOutputs == {Output(a, n) : a \in ClassifyAddrs, n \in ClassifyAmounts}

\* outputs that follow the first two
LaterOutputs == {Output(ADDR_B, 1), Output(burn_address(FALSE), 0), Output(ADDR_A, U64_MAX)}

OutputLists ==
    {<<>>} \cup {<<x>> : x \in ClassifyOutputs}
    \cup {<<x, y>> : x \in ClassifyOutputs, y \in ClassifyOutputs}
    \cup {<<x, y, z>> : x \in ClassifyOutputs, y \in ClassifyOutputs, z \in LaterOutputs}

\* a payload that passes is carried with every output list; one that fails
\* with a few
ClassifyOutputLists(o) ==
    IF o.key_block_ptr = PTR_4_BYTES + 1 /\ ~(o.parent_block_ptr = 0 /\ o.parent_vtxindex # 0)
       /\ o.parent_block_ptr < ParseHeight
    THEN OutputLists
    ELSE {<<Output(ADDR_A, 1), Output(ADDR_B, 1)>>, <<Output(burn_address(FALSE), 1)>>}

InitClassify ==
    /\ pc = "tx"
    /\ snapshots = <<FirstSnapshot>>
    /\ leader_keys = {}
    /\ block_commits = {}
    /\ epochs = EpochTable(FirstBlockHeight, FirstBlockHeight + 2)
    /\ op \in ClassifyOps
    /\ wire = consensus_serialize(op)
    /\ block = NoBlock
    /\ env = NoEnv
    /\ result = NoResult
    /\ \E outputs \in ClassifyOutputLists(op), burn_amount \in {0, 1} :
        tx = [txid |-> 9, vtxindex |-> COMMIT_VTXINDEX, opcode |-> OPCODE_LEADER_BLOCK_COMMIT,
              data |-> Payload(Tail(wire), PAYLOAD_LEN), inputs |-> <<TxInput>>,
              outputs |-> outputs, burn_amount |-> burn_amount]

NextClassify == ParseFromTx

SpecClassify == InitClassify /\ [][NextClassify]_vars

(***************************************************************************)
(* The reward-output harness: an operation for the block after a fork that *)
(* holds its leader key is submitted with a burnchain and a reward set;    *)
(* it is checked, or the commit outputs of the reward set are resolved.    *)
(***************************************************************************)
\* lists of no, one and two addresses, and some longer ones
AddrLists ==
    LET addrs == {burn_address(FALSE), ADDR_A, ADDR_B} IN
    {<<>>} \cup {<<a>> : a \in addrs} \cup {<<a, b>> : a \in addrs, b \in addrs}
    \cup {<<burn_address(TRUE), ADDR_A>>, <<ADDR_A, burn_address(TRUE)>>,
          <<burn_address(TRUE), burn_address(TRUE)>>,
          <<ADDR_A, ADDR_B, burn_address(FALSE)>>, <<ADDR_B, ADDR_A, ADDR_A>>,
          <<ADDR_A, ADDR_A, ADDR_B>>,
          <<burn_address(FALSE), burn_address(FALSE), burn_address(FALSE)>>}

PoxHeight == FirstBlockHeight + 2

PoxOps ==
    {MkOp(PoxHeight, fee, modulus_for(PoxHeight), <<FirstBlockHeight + 1, KEY_VTXINDEX>>,
          <<0, 0>>, Hash(1), <<STACKS_EPOCH_2_05_MARKER>>, outs, sunset_burn) :
        fee \in {1, U64_MAX}, sunset_burn \in {0, 1}, outs \in AddrLists}

\* half of the total commitment is due as sunset burn
BurnchainSunsetHalf == [BurnchainPlain EXCEPT !.sunset_progress = 1, !.sunset_duration = 2]

BurnchainMainnet == [BurnchainPlain EXCEPT !.mainnet = TRUE]

PoxBurnchains ==
    {BurnchainPlain, BurnchainMainnet, BurnchainSunsetHalf,
     BurnchainSunset, BurnchainSunsetAt(PoxHeight), BurnchainSunsetAt(PoxHeight + 1),
     BurnchainPrepare, [BurnchainPrepare EXCEPT !.sunset_end = 0],
     [BurnchainPrepare EXCEPT !.sunset_progress = 1, !.sunset_duration = 2]}

RewardSets ==
    {None} \cup {RewardSet([i \in 1..Len(l) |-> <<l[i], 1>>]) : l \in AddrLists}

PoxEnvs ==
    {[call |-> "submitted", burnchain |-> b, reward_set_info |-> r, descended |-> d] :
        b \in PoxBurnchains, r \in RewardSets, d \in {"true", "false", "DBError"}}

InitPox ==
    /\ pc = "submitted"
    /\ snapshots = <<FirstSnapshot,
                     [block_height |-> FirstBlockHeight + 1,
                      sortition_id |-> BurnHash(FirstBlockHeight + 1),
                      sortition |-> FALSE, winning_stacks_block_hash |-> Hash(0)]>>
    /\ leader_keys = {<<FirstBlockHeight + 1, KEY_VTXINDEX>>}
    /\ block_commits = {}
    /\ epochs = EpochTable(FirstBlockHeight, FirstBlockHeight + 2)
    /\ op \in PoxOps
    /\ env \in PoxEnvs
    /\ result = NoResult
    /\ tx = NoTx
    /\ wire = <<>>
    /\ block = NoBlock

\* op.check(&burnchain, &mut tx, reward_set_info) of the submitted operation
CheckSubmitted ==
    /\ pc = "submitted"
    /\ env' = [env EXCEPT !.call = "check"]
    /\ result' = check(op, env.burnchain, View(env), env.reward_set_info)
    /\ pc' = IF result'.tag = "Panic" THEN "aborted" ELSE "checked"
    /\ UNCHANGED <<chain_vars, op, tx, wire, block>>

\* RewardSetInfo::into_commit_outs(reward_set_info, burnchain.is_mainnet())
IntoCommitOuts ==
    /\ pc = "submitted"
    /\ env' = [env EXCEPT !.call = "into_commit_outs"]
    /\ result' = OkOp(into_commit_outs(env.reward_set_info, is_mainnet(env.burnchain)))
    /\ pc' = "resolved"
    /\ UNCHANGED <<chain_vars, op, tx, wire, block>>

NextPox == CheckSubmitted \/ IntoCommitOuts

SpecPox == InitPox /\ [][NextPox]_vars

(***************************************************************************)
(* The slot-timing harness: operations with every burn_parent_modulus byte *)
(* are submitted at heights below, inside and above a fork of TimingBlocks *)
(* burn blocks, one of which chose a Stacks block.                         *)
(***************************************************************************)
TimingBlocks == 6   \* burn blocks of the fork

TimingTip == FirstBlockHeight + TimingBlocks - 1

TimingFork ==
    [i \in 1..TimingBlocks |->
        [block_height |-> FirstBlockHeight + i - 1,
         sortition_id |-> BurnHash(FirstBlockHeight + i - 1),
         sortition |-> (i = 2),
         winning_stacks_block_hash |-> IF i = 2 THEN Hash(2) ELSE Hash(0)]]

\* what an operation carries besides its height and modulus, and the burnchain
\* and reward set it is checked with: <<burn_fee, key, parent, block hash,
\* memo, commit_outs, burnchain, reward set>>
TimingRest ==
    LET key == <<FirstBlockHeight + 1, KEY_VTXINDEX>>
        marker == <<STACKS_EPOCH_2_05_MARKER>>
        two == RewardSet(<<<<ADDR_A, 1>>, <<ADDR_B, 1>>>>)
    IN  {<<1, key, <<0, 0>>, Hash(1), marker, <<>>, BurnchainPlain, None>>,
         <<0, key, <<0, 0>>, Hash(1), marker, <<>>, BurnchainPlain, None>>,
         <<1, key, <<0, 0>>, Hash(1), marker, <<ADDR_A>>, BurnchainPlain, None>>,
         <<1, key, <<0, 0>>, Hash(1), marker, <<ADDR_A, ADDR_B>>, BurnchainPlain, two>>,
         <<1, key, <<0, 0>>, Hash(1), marker, <<ADDR_A>>, BurnchainPlain, two>>,
         <<1, key, <<0, 0>>, Hash(1), marker, <<ADDR_A>>, BurnchainSunset, None>>,
         <<1, key, <<0, 0>>, Hash(1), marker, <<burn_address(FALSE)>>, BurnchainSunset, None>>,
         <<1, <<FirstBlockHeight, KEY_VTXINDEX>>, <<0, 0>>, Hash(1), marker, <<>>,
           BurnchainPlain, None>>,
         <<1, key, <<FirstBlockHeight, COMMIT_VTXINDEX>>, Hash(1), marker, <<>>,
           BurnchainPlain, None>>,
         <<1, key, <<FirstBlockHeight + 1, COMMIT_VTXINDEX>>, Hash(1), marker, <<>>,
           BurnchainPlain, None>>,
         <<1, key, <<TimingTip, COMMIT_VTXINDEX>>, Hash(1), marker, <<>>,
           BurnchainPlain, None>>,
         <<1, key, <<TimingTip + 1, COMMIT_VTXINDEX>>, Hash(1), marker, <<>>,
           BurnchainPlain, None>>,
         <<1, key, <<0, 0>>, Hash(2), marker, <<>>, BurnchainPlain, None>>,
         <<1, key, <<0, 0>>, Hash(1), <<>>, <<>>, BurnchainPlain, None>>}

TimingHeights == 0..(TimingTip + 2)

InitTiming ==
    /\ pc = "submitted"
    /\ snapshots = TimingFork
    /\ leader_keys = {<<FirstBlockHeight + 1, KEY_VTXINDEX>>}
    /\ block_commits = {[block_height |-> FirstBlockHeight + 1, vtxindex |-> COMMIT_VTXINDEX,
                         block_header_hash |-> Hash(2)],
                        [block_height |-> TimingTip, vtxindex |-> COMMIT_VTXINDEX,
                         block_header_hash |-> Hash(3)]}
    /\ epochs = EpochTable(FirstBlockHeight, FirstBlockHeight + 2)
    /\ \E h \in TimingHeights, m \in 0..255, r \in TimingRest :
        /\ op = MkOp(h, r[1], m, r[2], r[3], r[4], r[5], r[6], 0)
        /\ env = [call |-> "submitted", burnchain |-> r[7], reward_set_info |-> r[8],
                  descended |-> "true"]
    /\ result = NoResult
    /\ tx = NoTx
    /\ wire = <<>>
    /\ block = NoBlock

NextTiming == CheckSubmitted

SpecTiming == InitTiming /\ [][NextTiming]_vars

(***************************************************************************)
(* The marker harness: an operation built in memory, with any memo, is     *)
(* checked, then serialized and rebuilt from its decoded payload as the    *)
(* classifier rebuilds it, and the rebuilt operation is checked.           *)
(***************************************************************************)
MarkerOps ==
    {MkOp(PoxHeight, 1, modulus_for(PoxHeight), <<FirstBlockHeight + 1, KEY_VTXINDEX>>,
          <<0, 0>>, Hash(1), memo, <<>>, 0) :
        memo \in {<<>>} \cup {<<b>> : b \in 0..255}}

\* the operation with the payload fields parse_data reads off its serialization
redecoded(o) ==
    LET data == parse_data(Tail(consensus_serialize(o)))
    IN  [o EXCEPT !.block_header_hash = data.block_header_hash,
                  !.new_seed = data.new_seed,
                  !.parent_block_ptr = data.parent_block_ptr,
                  !.parent_vtxindex = data.parent_vtxindex,
                  !.key_block_ptr = data.key_block_ptr,
                  !.key_vtxindex = data.key_vtxindex,
                  !.memo = <<data.memo>>,
                  !.burn_parent_modulus = data.burn_parent_modulus]

InitMarker ==
    /\ pc = "submitted"
    /\ snapshots = <<FirstSnapshot,
                     [block_height |-> FirstBlockHeight + 1,
                      sortition_id |-> BurnHash(FirstBlockHeight + 1),
                      sortition |-> FALSE, winning_stacks_block_hash |-> Hash(0)]>>
    /\ leader_keys = {<<FirstBlockHeight + 1, KEY_VTXINDEX>>}
    /\ block_commits = {}
    /\ epochs \in {EpochTable(FirstBlockHeight, FirstBlockHeight + 2),
                   EpochTable(FirstBlockHeight, FirstBlockHeight + 3)}
    /\ op \in MarkerOps
    /\ env = [call |-> "submitted", burnchain |-> BurnchainPlain, reward_set_info |-> None,
              descended |-> "false", in_memory |-> NoResult]
    /\ result = NoResult
    /\ tx = NoTx
    /\ wire = <<>>
    /\ block = NoBlock

\* the checked operation goes over the wire: it is serialized, and the
\* operation decoded from the payload is submitted in its place
Redecode ==
    /\ pc = "checked"
    /\ wire = <<>>
    /\ wire' = consensus_serialize(op)
    /\ op' = redecoded(op)
    /\ env' = [env EXCEPT !.call = "submitted", !.in_memory = result]
    /\ result' = NoResult
    /\ pc' = "submitted"
    /\ UNCHANGED <<chain_vars, tx, block>>

NextMarker == CheckSubmitted \/ Redecode

SpecMarker == InitMarker /\ [][NextMarker]_vars

(***************************************************************************)
(* The per-block loop: the block commits of one burn block are checked one *)
(* after another, in any order, with the handle opened at the tip that     *)
(* predates the block; the accepted ones join the block's leader keys in   *)
(* block_ops, which the snapshot of the block stores at the end.           *)
(***************************************************************************)
SiblingHeight == FirstBlockHeight + 2

SiblingOp(vtxindex, key, parent, hash) ==
    [MkOp(SiblingHeight, 1, modulus_for(SiblingHeight), key, parent, hash,
          <<STACKS_EPOCH_2_05_MARKER>>, <<>>, 0)
        EXCEPT !.vtxindex = vtxindex, !.txid = vtxindex]

\* block commits at one position of the block: their references resolve in
\* the fork, point at the block itself or dangle
SiblingOps(vtxindex) ==
    {SiblingOp(vtxindex, key, parent, hash) :
        key \in {<<FirstBlockHeight + 1, KEY_VTXINDEX>>, <<SiblingHeight, KEY_VTXINDEX>>},
        parent \in {<<0, 0>>, <<FirstBlockHeight + 1, COMMIT_VTXINDEX>>,
                    <<SiblingHeight, COMMIT_VTXINDEX>>, <<SiblingHeight, COMMIT_VTXINDEX + 1>>},
        hash \in {Hash(1), Hash(2)}}

\* the forks a block is processed on: with or without a commit stored at
\* the tip, which won its sortition or did not
SiblingForks ==
    {[stored |-> st, won |-> w] : st \in BOOLEAN, w \in BOOLEAN} \ {[stored |-> FALSE, won |-> TRUE]}

InitBlock ==
    /\ pc = "block"
    /\ \E fork \in SiblingForks :
        /\ snapshots = <<FirstSnapshot,
                         [block_height |-> FirstBlockHeight + 1,
                          sortition_id |-> BurnHash(FirstBlockHeight + 1),
                          sortition |-> fork.won,
                          winning_stacks_block_hash |-> IF fork.won THEN Hash(2) ELSE Hash(0)]>>
        /\ block_commits =
               IF fork.stored
               THEN {[block_height |-> FirstBlockHeight + 1, vtxindex |-> COMMIT_VTXINDEX,
                      block_header_hash |-> Hash(2)]}
               ELSE {}
    /\ leader_keys = {<<FirstBlockHeight + 1, KEY_VTXINDEX>>}
    /\ epochs = EpochTable(FirstBlockHeight, FirstBlockHeight + 2)
    /\ op = NoOp
    /\ env = NoEnv
    /\ result = NoResult
    /\ tx = NoTx
    /\ wire = <<>>
    /\ \E a \in SiblingOps(COMMIT_VTXINDEX), b \in SiblingOps(COMMIT_VTXINDEX + 1),
          keys \in {{}, {<<SiblingHeight, KEY_VTXINDEX>>}} :
        block = [ops |-> <<a, b>>,
                 keys |-> keys,
                 outcomes |-> <<NoResult, NoResult>>,
                 block_ops |-> <<>>,
                 base |-> [snapshots |-> snapshots, leader_keys |-> leader_keys,
                           block_commits |-> block_commits]]

\* CheckSibling, appending the snapshot of the block as soon as a commit is
\* accepted
CheckSibling_appending ==
    /\ pc = "block"
    /\ \E i \in 1..Len(block.ops) :
        /\ block.outcomes[i] = NoResult
        /\ op' = block.ops[i]
        /\ env' = EnvPlain
        /\ result' = check(block.ops[i], BurnchainPlain, View(EnvPlain), None)
        /\ block' = [block EXCEPT !.outcomes[i] = result',
                                  !.block_ops = IF result' = Ok THEN Append(@, i) ELSE @]
        /\ snapshots' = IF result' = Ok
                        THEN Append(snapshots,
                                [block_height |-> SiblingHeight,
                                 sortition_id |-> BurnHash(SiblingHeight),
                                 sortition |-> TRUE,
                                 winning_stacks_block_hash |-> block.ops[i].block_header_hash])
                        ELSE snapshots
    /\ pc' = "block"
    /\ UNCHANGED <<leader_keys, block_commits, epochs, tx, wire>>

\* one turn of the loop over the block's commits: op.check(&burnchain, &mut ic, None)
CheckSibling ==
    /\ pc = "block"
    /\ \E i \in 1..Len(block.ops) :
        /\ block.outcomes[i] = NoResult
        /\ op' = block.ops[i]
        /\ env' = EnvPlain
        /\ result' = check(block.ops[i], BurnchainPlain, View(EnvPlain), None)
        /\ block' = [block EXCEPT !.outcomes[i] = result',
                                  !.block_ops = IF result' = Ok THEN Append(@, i) ELSE @]
    /\ pc' = "block"
    /\ UNCHANGED <<chain_vars, tx, wire>>

\* test_append_snapshot(&mut db, next_hash, &block_ops): the sortition picks
\* the first accepted commit, if any
AppendBlockOps ==
    /\ pc = "block"
    /\ \A i \in 1..Len(block.ops) : block.outcomes[i] # NoResult
    /\ snapshots' = Append(snapshots,
            [block_height |-> SiblingHeight, sortition_id |-> BurnHash(SiblingHeight),
             sortition |-> block.block_ops # <<>>,
             winning_stacks_block_hash |->
                 IF block.block_ops # <<>>
                 THEN block.ops[block.block_ops[1]].block_header_hash ELSE Hash(0)])
    /\ leader_keys' = leader_keys \cup block.keys
    /\ block_commits' = block_commits
            \cup {StoredCommit(block.ops[block.block_ops[k]]) : k \in 1..Len(block.block_ops)}
    /\ pc' = "block_done"
    /\ op' = NoOp
    /\ env' = NoEnv
    /\ result' = NoResult
    /\ UNCHANGED <<epochs, tx, wire, block>>

NextBlock == CheckSibling \/ AppendBlockOps

SpecBlock == InitBlock /\ [][NextBlock]_vars

(***************************************************************************)
(* The guards of check as section 4.4 of the specification words them,     *)
(* read off the state after a call of check                                *)
(***************************************************************************)
Checked == pc \in {"checked", "aborted"} /\ env.call = "check"

IntendedModulus == (op.burn_parent_modulus + 1) % 5

ActualModulus == op.block_height % 5

MissDistance ==
    IF ActualModulus - IntendedModulus > 0
    THEN ActualModulus - IntendedModulus
    ELSE 5 + ActualModulus - IntendedModulus

AncestorsAt(height) == {snapshots[i] : i \in {j \in 1..Len(snapshots) : snapshots[j].block_height = height}}

EpochIdAt(height) ==
    LET covering == {i \in 1..Len(epochs) :
                        epochs[i].start_height <= height /\ height < epochs[i].end_height}
    IN  IF covering = {} THEN "none" ELSE epochs[CHOOSE i \in covering : TRUE].epoch_id

KeyRegisteredAt(height, vtxindex) == <<height, vtxindex>> \in leader_keys

CommitStoredAt(height, vtxindex) ==
    \E c \in block_commits : c.block_height = height /\ c.vtxindex = vtxindex

BurnGuardFails == op.burn_fee = 0

ModulusGuardFails == IntendedModulus # ActualModulus

OutputsGuardFails ==
    check_outputs(op, env.burnchain, View(env), env.reward_set_info) # Ok

GenesisGuardFails == op.block_height < snapshots[1].block_height

UniqueGuardFails == expects_stacks_block_in_fork(snapshots, op.block_header_hash)

KeyGuardFails ==
    \/ op.key_block_ptr >= op.block_height
    \/ ~KeyRegisteredAt(op.key_block_ptr, op.key_vtxindex)

ParentGuardPasses ==
    /\ op.parent_block_ptr # op.block_height
    /\ \/ (op.parent_block_ptr = 0 /\ op.parent_vtxindex = 0)
       \/ CommitStoredAt(op.parent_block_ptr, op.parent_vtxindex)

MarkerMissingOrLow == Len(op.memo) = 0 \/ op.memo[1] < STACKS_EPOCH_2_05_MARKER

EpochGuardFails ==
    \/ EpochIdAt(op.block_height) \in {"none", "Epoch10"}
    \/ EpochIdAt(op.block_height) = "Epoch2_05" /\ MarkerMissingOrLow

GuardFails ==
    <<BurnGuardFails, ModulusGuardFails, OutputsGuardFails, GenesisGuardFails,
      UniqueGuardFails, KeyGuardFails, ~ParentGuardPasses, EpochGuardFails>>

\* the lowest-numbered guard that fails, 0 when none does
FirstFailing ==
    IF \E i \in 1..8 : GuardFails[i]
    THEN CHOOSE i \in 1..8 : GuardFails[i] /\ \A j \in 1..(i - 1) : ~GuardFails[j]
    ELSE 0

GuardsPassUpTo(n) == \A i \in 1..n : ~GuardFails[i]

\* what the slot-timing guard yields when the moduli differ
MissedSlotOutcome ==
    IF MissDistance > op.block_height THEN Err("BlockCommitBadModulus")
    ELSE IF AncestorsAt(op.block_height - MissDistance) = {} THEN Err("BlockCommitNoParent")
    ELSE MissedBlockCommit(op.txid, op.input,
            (CHOOSE s \in AncestorsAt(op.block_height - MissDistance) : TRUE).sortition_id)

GuardOutcome(i) ==
    CASE i = 1 -> Err("BlockCommitBadInput")
      [] i = 2 -> MissedSlotOutcome
      [] i = 3 -> check_outputs(op, env.burnchain, View(env), env.reward_set_info)
      [] i = 4 -> Err("BlockCommitPredatesGenesis")
      [] i = 5 -> Err("BlockCommitAlreadyExists")
      [] i = 6 -> Err("BlockCommitNoLeaderKey")
      [] i = 7 -> Err("BlockCommitNoParent")
      [] i = 8 -> IF EpochIdAt(op.block_height) \in {"none", "Epoch10"}
                  THEN Panic ELSE Err("BlockCommitBadEpoch")

(***************************************************************************)
(* C1: check returns the outcome of the lowest-numbered failing guard, in  *)
(* the order burn, slot timing, outputs, genesis floor, uniqueness, leader *)
(* key, parent, epoch marker, and Ok exactly when no guard fails; with the *)
(* key and the parent both missing the outcome is BlockCommitNoLeaderKey.  *)
(***************************************************************************)
C1_FirstFailingGuardDecides ==
    Checked =>
        /\ (result = Ok) <=> (FirstFailing = 0)
        /\ FirstFailing # 0 => result = GuardOutcome(FirstFailing)
        /\ (GuardsPassUpTo(5) /\ KeyGuardFails /\ ~ParentGuardPasses)
              => result = Err("BlockCommitNoLeaderKey")

C1_Witness ==
    /\ Checked
    /\ GuardsPassUpTo(5) /\ KeyGuardFails /\ ~ParentGuardPasses
    /\ result = Err("BlockCommitNoLeaderKey")

(***************************************************************************)
(* C2: an operation with burn_fee = 0 is rejected with BlockCommitBadInput *)
(* whatever its slot timing, outputs and references are; it is never       *)
(* accepted and never yields a missed commit.                              *)
(***************************************************************************)
C2_ZeroBurnIsBadInput ==
    (Checked /\ op.burn_fee = 0) => result = Err("BlockCommitBadInput")

C2_Witness ==
    /\ Checked
    /\ op.burn_fee = 0
    /\ ModulusGuardFails
    /\ MissDistance <= op.block_height
    /\ AncestorsAt(op.block_height - MissDistance) # {}
    /\ result = Err("BlockCommitBadInput")

(***************************************************************************)
(* C3 as stated: a commit whose moduli differ, whose miss distance d is at *)
(* most its block height and which has an ancestor d blocks back yields    *)
(* MissedBlockCommit with its txid, its input and that ancestor's hash.    *)
(***************************************************************************)
MissedSlotWithAncestor ==
    /\ ModulusGuardFails
    /\ MissDistance <= op.block_height
    /\ AncestorsAt(op.block_height - MissDistance) # {}

C3_MissedCommitAsStated ==
    (Checked /\ MissedSlotWithAncestor) =>
        \E s \in AncestorsAt(op.block_height - MissDistance) :
            result = MissedBlockCommit(op.txid, op.input, s.sortition_id)

(***************************************************************************)
(* C3 amended: the same, for a commit with a non-zero burn_fee.            *)
(***************************************************************************)
C3_MissedCommitWhenBurning ==
    (Checked /\ op.burn_fee # 0 /\ MissedSlotWithAncestor) =>
        \E s \in AncestorsAt(op.block_height - MissDistance) :
            result = MissedBlockCommit(op.txid, op.input, s.sortition_id)

C3_Witness ==
    /\ Checked
    /\ op.burn_fee # 0
    /\ MissedSlotWithAncestor
    /\ MissDistance > 1
    /\ result.tag = "MissedBlockCommit"

C5_ParentGuard ==
    (Checked /\ GuardsPassUpTo(6)) =>
        IF /\ op.parent_block_ptr # op.block_height
           /\ \/ (op.parent_block_ptr = 0 /\ op.parent_vtxindex = 0)
              \/ CommitStoredAt(op.parent_block_ptr, op.parent_vtxindex)
        THEN result.tag \in {"Ok", "BlockCommitBadEpoch", "Panic"}
        ELSE result = Err("BlockCommitNoParent")

C5_Witness ==
    /\ Checked
    /\ GuardsPassUpTo(6)
    /\ op.parent_block_ptr # 0
    /\ CommitStoredAt(op.parent_block_ptr, op.parent_vtxindex)
    /\ result = Ok

WonSortition(c) ==
    \E s \in AncestorsAt(c.block_height) :
        s.sortition /\ s.winning_stacks_block_hash = c.block_header_hash

C7_Epoch205Marker ==
    (Checked /\ GuardsPassUpTo(7) /\ EpochIdAt(op.block_height) = "Epoch2_05") =>
        IF Len(op.memo) = 0 \/ op.memo[1] < STACKS_EPOCH_2_05_MARKER
        THEN result = Err("BlockCommitBadEpoch")
        ELSE result = Ok

C7_Witness ==
    /\ Checked
    /\ GuardsPassUpTo(7)
    /\ EpochIdAt(op.block_height) = "Epoch2_05"
    /\ Len(op.memo) = 1
    /\ op.memo[1] > STACKS_EPOCH_2_05_MARKER
    /\ result = Ok

(***************************************************************************)
(* C8: in Epoch 2.0 the memo has no influence on the outcome: check        *)
(* returns the same for the operation with any other memo.                 *)
(***************************************************************************)
C8_Epoch20IgnoresMemo ==
    (Checked /\ EpochIdAt(op.block_height) = "Epoch20") =>
        \A memo \in Memos :
            check([op EXCEPT !.memo = memo], env.burnchain, View(env), env.reward_set_info)
                = result

C8_Witness ==
    /\ Checked
    /\ EpochIdAt(op.block_height) = "Epoch20"
    /\ GuardsPassUpTo(7)
    /\ Len(op.memo) = 1
    /\ op.memo[1] < STACKS_EPOCH_2_05_MARKER
    /\ result = Ok

(***************************************************************************)
(* C9: for an operation with a memo of at most one byte and a              *)
(* burn_parent_modulus of 0..4, parse_data of the serialized payload gives *)
(* back block_header_hash, new_seed and the four pointers, the low 5 bits  *)
(* of memo[0] (0 for an empty memo) and the low 3 bits of the modulus.     *)
(***************************************************************************)
ValidlyConstructed == Len(op.memo) <= 1 /\ op.burn_parent_modulus \in 0..4

WholePayloadParsed ==
    pc \in {"parsed", "aborted"} /\ env.call = "parse_data" /\ tx.data = Tail(wire)

C9_RoundTrip ==
    (WholePayloadParsed /\ ValidlyConstructed) =>
        /\ result.tag = "Some"
        /\ result.block_header_hash = op.block_header_hash
        /\ result.new_seed = op.new_seed
        /\ result.parent_block_ptr = op.parent_block_ptr
        /\ result.parent_vtxindex = op.parent_vtxindex
        /\ result.key_block_ptr = op.key_block_ptr
        /\ result.key_vtxindex = op.key_vtxindex
        /\ result.memo = (IF Len(op.memo) = 0 THEN 0 ELSE op.memo[1] % 32)
        /\ result.burn_parent_modulus = op.burn_parent_modulus % 8

C9_Witness ==
    /\ WholePayloadParsed
    /\ ValidlyConstructed
    /\ Len(op.memo) = 1
    /\ op.memo[1] > 31
    /\ op.burn_parent_modulus = 4
    /\ op.parent_block_ptr = PTR_4_BYTES
    /\ result.tag = "Some"
    /\ result.memo = op.memo[1] % 32

(***************************************************************************)
(* C10: a payload shorter than 77 bytes is never decoded and never makes   *)
(* the decoder panic: parse_data returns None, and parse_from_tx of a      *)
(* transaction with a signer, an output and the right opcode returns       *)
(* ParseError.                                                             *)
(***************************************************************************)
C10_ShortPayloadRejected ==
    /\ (pc \in {"parsed", "aborted"} /\ env.call = "parse_data" /\ Len(tx.data) < 77)
          => result.tag = "None"
    /\ (/\ pc \in {"classified", "aborted"}
        /\ env.call = "parse_from_tx"
        /\ Len(tx.data) < 77
        /\ Len(tx.inputs) > 0
        /\ Len(tx.outputs) > 0
        /\ tx.opcode = OPCODE_LEADER_BLOCK_COMMIT)
          => result = Err("ParseError")

C10_Witness ==
    /\ pc = "classified"
    /\ env.call = "parse_from_tx"
    /\ Len(tx.data) = 76
    /\ Len(tx.inputs) > 0
    /\ Len(tx.outputs) > 0
    /\ tx.opcode = OPCODE_LEADER_BLOCK_COMMIT
    /\ result = Err("ParseError")

(***************************************************************************)
(* The classifier's checks 1-6 and its phases as section 4.2 of the        *)
(* specification words them, read off the state after parse_from_tx        *)
(***************************************************************************)
Classified == pc \in {"classified", "aborted"} /\ env.call = "parse_from_tx"

\* the payload is the whole encoding of `op`, so the decoded pointers are op's
ClassifierChecksPass ==
    /\ Len(tx.inputs) > 0
    /\ Len(tx.outputs) > 0
    /\ tx.opcode = OPCODE_LEADER_BLOCK_COMMIT
    /\ tx.data = Tail(wire)
    /\ ~(op.parent_block_ptr = 0 /\ op.parent_vtxindex # 0)
    /\ op.parent_block_ptr < env.block_height
    /\ op.key_block_ptr > 0
    /\ op.key_block_ptr < env.block_height

PostSunsetHeight == env.block_height >= env.burnchain.sunset_end

PreparePhaseHeight == ~PostSunsetHeight /\ env.block_height \in env.burnchain.prepare_heights

RewardPhaseHeight == ~PostSunsetHeight /\ ~PreparePhaseHeight

ClassifiedOp == result.data[1]

(***************************************************************************)
(* C11: in the reward phase, a transaction that passes checks 1-6 and      *)
(* whose first two outputs carry unequal amounts is rejected with          *)
(* ParseError, whatever outputs follow and whatever burn amount is         *)
(* attached.                                                               *)
(***************************************************************************)
C11_UnequalAmountsRejected ==
    (/\ Classified
     /\ ClassifierChecksPass
     /\ RewardPhaseHeight
     /\ Len(tx.outputs) >= 2
     /\ tx.outputs[1].amount # tx.outputs[2].amount)
        => result = Err("ParseError")

C11_Witness ==
    /\ Classified
    /\ ClassifierChecksPass
    /\ RewardPhaseHeight
    /\ Len(tx.outputs) = 3
    /\ tx.outputs[1].amount # tx.outputs[2].amount
    /\ tx.outputs[1].amount = tx.outputs[3].amount
    /\ tx.burn_amount = 1
    /\ result = Err("ParseError")

C13_BurnOnlyPhaseClassification ==
    (Classified /\ ClassifierChecksPass /\ (PostSunsetHeight \/ PreparePhaseHeight)) =>
        IF tx.outputs[1].address.bytes # 0 THEN result = Err("BlockCommitBadOutputs")
        ELSE /\ result.tag = "Ok"
             /\ ClassifiedOp.commit_outs = <<tx.outputs[1].address>>
             /\ ClassifiedOp.burn_fee = tx.outputs[1].amount
             /\ ClassifiedOp.sunset_burn = 0

C13_Witness ==
    /\ Classified
    /\ ClassifierChecksPass
    /\ PreparePhaseHeight
    /\ Len(tx.outputs) = 3
    /\ tx.outputs[2].address.bytes # 0
    /\ tx.outputs[2].amount # tx.outputs[1].amount
    /\ tx.burn_amount = 1
    /\ result.tag = "Ok"
    /\ ClassifiedOp.sunset_burn = 0

(***************************************************************************)
(* C14: every operation parse_from_tx returns has burn_fee > 0, in each of *)
(* the three phases.                                                       *)
(***************************************************************************)
C14_ClassifiedBurnFeePositive ==
    (Classified /\ result.tag = "Ok") => ClassifiedOp.burn_fee > 0

(***************************************************************************)
(* C15: into_commit_outs returns exactly 2 addresses for every input: the  *)
(* recipients of the reward set in their given order, padded with the burn *)
(* address of the network up to 2, and two burn addresses when no reward   *)
(* set is given.                                                           *)
(***************************************************************************)
Resolved == pc = "resolved" /\ env.call = "into_commit_outs"

NetworkBurnAddress == burn_address(env.burnchain.mainnet)

C15_ExactlyTwoCommitOuts ==
    Resolved =>
        LET outs == result.data[1] IN
        /\ Len(outs) = 2
        /\ IF env.reward_set_info.is_some
           THEN LET recipients == env.reward_set_info.value.recipients IN
                \A i \in 1..2 :
                    outs[i] = IF i <= Len(recipients) THEN recipients[i][1]
                              ELSE NetworkBurnAddress
           ELSE outs = <<NetworkBurnAddress, NetworkBurnAddress>>

(***************************************************************************)
(* The output-shape step of check as section 4.4 of the specification      *)
(* words it, read off the state after a call of check in the reward-output *)
(* harness (the guards before and after the step pass there)               *)
(***************************************************************************)
OpPostSunset == op.block_height >= env.burnchain.sunset_end

OpPreparePhase == op.block_height \in env.burnchain.prepare_heights

OpRewardPhase == ~OpPostSunset /\ ~OpPreparePhase

OutputStepPasses == result.tag \notin {"BlockCommitBadOutputs", "BlockCommitAnchorCheck", "Panic"}

AllCommitOutsBurn == \A i \in 1..Len(op.commit_outs) : op.commit_outs[i].bytes = 0

SomeNonBurnRecipient ==
    /\ env.reward_set_info.is_some
    /\ \E i \in 1..Len(env.reward_set_info.value.recipients) :
           env.reward_set_info.value.recipients[i][1].bytes # 0

\* the sunset burn the operation carries covers the expected sunset burn
SunsetBurnCovered ==
    /\ op.burn_fee + op.sunset_burn <= U64_MAX
    /\ op.sunset_burn >=
           ((op.burn_fee + op.sunset_burn) * env.burnchain.sunset_progress)
               \div env.burnchain.sunset_duration

\* the recipient addresses, padded with one burn address when there is one
ExpectedRecipients ==
    LET recipients == env.reward_set_info.value.recipients
        addrs == [i \in 1..Len(recipients) |-> recipients[i][1]]
    IN  IF Len(addrs) = 1 THEN Append(addrs, NetworkBurnAddress) ELSE addrs

Count(list, a) == Cardinality({i \in 1..Len(list) : list[i] = a})

SameMultiset(l1, l2) ==
    /\ Len(l1) = Len(l2)
    /\ \A i \in 1..Len(l1) : Count(l1, l1[i]) = Count(l2, l1[i])

PaysRecipients == SameMultiset(op.commit_outs, ExpectedRecipients)

(***************************************************************************)
(* C16: at a post-sunset or a prepare-phase height, the output-shape step  *)
(* passes exactly when the operation has one commit output and it is a     *)
(* burn address, whether or not a reward set is supplied; otherwise the    *)
(* outcome is BlockCommitBadOutputs.                                       *)
(***************************************************************************)
C16_BurnOnlyPhaseShape ==
    (Checked /\ (OpPostSunset \/ OpPreparePhase)) =>
        IF Len(op.commit_outs) = 1 /\ AllCommitOutsBurn
        THEN OutputStepPasses
        ELSE result = Err("BlockCommitBadOutputs")

(***************************************************************************)
(* C17: in the reward phase with a reward set that has a non-burn          *)
(* recipient, for an operation whose commit outputs are not all burns, the *)
(* comparison of the outputs succeeds exactly when commit_outs equals the  *)
(* (padded) recipient list as a multiset; any other commit_outs gives      *)
(* BlockCommitBadOutputs.  When it succeeds the outcome is that of the     *)
(* descent query alone.                                                    *)
(***************************************************************************)
C17_OrderInsensitiveMatch ==
    (Checked /\ OpRewardPhase /\ SomeNonBurnRecipient /\ SunsetBurnCovered
        /\ ~AllCommitOutsBurn) =>
        IF PaysRecipients
        THEN CASE env.descended = "true" -> OutputStepPasses
               [] env.descended = "false" -> result = Err("BlockCommitBadOutputs")
               [] OTHER -> result = Err("BlockCommitAnchorCheck")
        ELSE result = Err("BlockCommitBadOutputs")

C17_Witness ==
    /\ Checked
    /\ OpRewardPhase
    /\ SomeNonBurnRecipient
    /\ SunsetBurnCovered
    /\ PaysRecipients
    /\ op.commit_outs # ExpectedRecipients
    /\ env.descended = "true"
    /\ result = Ok

(***************************************************************************)
(* C18: in the reward phase with a reward set that has a non-burn          *)
(* recipient, an operation that pays the recipients passes the step only   *)
(* when its parent height descends from the anchor block, an operation     *)
(* whose outputs are all burns only when it does not; either mismatch is   *)
(* BlockCommitBadOutputs and a failed descent query is                     *)
(* BlockCommitAnchorCheck.                                                 *)
(***************************************************************************)
C18_AnchorDescent ==
    (Checked /\ OpRewardPhase /\ SomeNonBurnRecipient /\ SunsetBurnCovered
        /\ (AllCommitOutsBurn \/ PaysRecipients)) =>
        /\ OutputStepPasses => (env.descended = "true") = ~AllCommitOutsBurn
        /\ env.descended = "DBError" => result = Err("BlockCommitAnchorCheck")
        /\ (env.descended # "DBError" /\ (env.descended = "true") = AllCommitOutsBurn)
               => result = Err("BlockCommitBadOutputs")

C18_Witness ==
    /\ Checked
    /\ OpRewardPhase
    /\ SomeNonBurnRecipient
    /\ SunsetBurnCovered
    /\ AllCommitOutsBurn
    /\ Len(op.commit_outs) = 2
    /\ env.descended = "false"
    /\ result = Ok

(***************************************************************************)
(* C19: check performs no writes: whatever the operation and the outcome   *)
(* (accept, a typed rejection, a missed commit), the snapshots, leader     *)
(* keys, stored commits and epoch table are the same after the call as     *)
(* before it, and stay so until the snapshot of the next block is          *)
(* appended.                                                               *)
(***************************************************************************)
HistoryUnchanged ==
    /\ snapshots' = snapshots
    /\ leader_keys' = leader_keys
    /\ block_commits' = block_commits
    /\ epochs' = epochs

C19_CheckWritesNothing ==
    [][/\ (pc' \in {"checked", "aborted"}) => HistoryUnchanged
       /\ (Len(snapshots') = Len(snapshots)) => HistoryUnchanged]_vars

C19_Witness ==
    /\ Checked
    /\ result = Ok
    /\ block_commits # {}
    /\ leader_keys # {}
    /\ \A c \in block_commits : c.block_height < op.block_height

(***************************************************************************)
(* C20: when the commits of one burn block are checked one after another   *)
(* against the snapshot that predates the block, the outcome of each is    *)
(* the same in every order of checking: it is what the uniqueness, leader  *)
(* key and parent guards give on the history before the block.  No commit  *)
(* is accepted by resolving its leader key or its parent to a sibling      *)
(* operation of the same block.                                            *)
(***************************************************************************)
\* the outcome of a sibling (burn, slot timing, outputs and marker in
\* order) on the history that predates the block
OutcomeBeforeBlock(o) ==
    LET base == block.base IN
    IF \E i \in 1..Len(base.snapshots) :
           /\ base.snapshots[i].sortition
           /\ base.snapshots[i].winning_stacks_block_hash = o.block_header_hash
    THEN Err("BlockCommitAlreadyExists")
    ELSE IF \/ o.key_block_ptr >= o.block_height
            \/ <<o.key_block_ptr, o.key_vtxindex>> \notin base.leader_keys
    THEN Err("BlockCommitNoLeaderKey")
    ELSE IF \/ o.parent_block_ptr = o.block_height
            \/ /\ ~(o.parent_block_ptr = 0 /\ o.parent_vtxindex = 0)
               /\ ~\E c \in base.block_commits :
                      c.block_height = o.parent_block_ptr /\ c.vtxindex = o.parent_vtxindex
    THEN Err("BlockCommitNoParent")
    ELSE Ok

SiblingPositions == {<<block.ops[j].block_height, block.ops[j].vtxindex>> : j \in 1..Len(block.ops)}

C20_SiblingOrderIrrelevant ==
    (pc \in {"block", "block_done"}) =>
        \A i \in 1..Len(block.ops) :
            block.outcomes[i] # NoResult =>
                /\ block.outcomes[i] = OutcomeBeforeBlock(block.ops[i])
                /\ block.outcomes[i] = Ok =>
                    /\ <<block.ops[i].key_block_ptr, block.ops[i].key_vtxindex>> \notin block.keys
                    /\ <<block.ops[i].parent_block_ptr, block.ops[i].parent_vtxindex>>
                           \notin SiblingPositions

\* both siblings commit to one block hash and are accepted, the second after
\* the first, in a block that also registers a leader key
C20_Witness ==
    /\ pc = "block"
    /\ block.block_ops = <<2, 1>>
    /\ block.ops[1].block_header_hash = block.ops[2].block_header_hash
    /\ block.outcomes = <<Ok, Ok>>
    /\ block.keys # {}
    /\ block_commits # {}

(***************************************************************************)
(* C21: when guards 1-7 pass and the epoch of block_height is Epoch10,     *)
(* check aborts the process: it returns neither Ok nor a rejection.  An    *)
(* operation that fails one of guards 1-7 is rejected with that guard's    *)
(* outcome and the epoch is never looked at; the only abort such an        *)
(* operation can meet is the overflow of burn_fee + sunset_burn in the     *)
(* output guard.                                                           *)
(***************************************************************************)
AmountsOverflow == op.burn_fee + op.sunset_burn > U64_MAX

C21_Epoch10Aborts ==
    Checked =>
        /\ (EpochIdAt(op.block_height) = "Epoch10" /\ GuardsPassUpTo(7))
              => (result = Panic /\ pc = "aborted")
        /\ result = Ok => GuardsPassUpTo(7)
        /\ (result = Panic /\ ~GuardsPassUpTo(7)) => (FirstFailing = 3 /\ AmountsOverflow)
        /\ result # Panic => pc = "checked"

\* a commit with a registered key, mined for its slot at a height of Epoch10
C21_Witness ==
    /\ Checked
    /\ GuardsPassUpTo(7)
    /\ EpochIdAt(op.block_height) = "Epoch10"
    /\ KeyRegisteredAt(op.key_block_ptr, op.key_vtxindex)
    /\ pc = "aborted"

(***************************************************************************)
(* C22: parse_from_tx returns the error of the first failing structural    *)
(* check, in the order: no signer -> InvalidInput; no output ->            *)
(* InvalidInput; wrong opcode -> InvalidInput; payload not decodable ->    *)
(* ParseError; parent pointer 0 with a non-zero parent vtxindex ->         *)
(* ParseError; parent pointer >= block_height -> ParseError; key pointer 0 *)
(* or >= block_height -> ParseError.  The outputs are looked at only when  *)
(* all of these pass.                                                      *)
(***************************************************************************)
ParsedFromTx == pc \in {"classified", "aborted"} /\ env.call = "parse_from_tx"

\* the structural checks in the order of section 4.2, read off the
\* transaction and the operation its payload was serialized from
StructuralError ==
    IF Len(tx.inputs) = 0 THEN "InvalidInput"
    ELSE IF Len(tx.outputs) = 0 THEN "InvalidInput"
    ELSE IF tx.opcode # OPCODE_LEADER_BLOCK_COMMIT THEN "InvalidInput"
    ELSE IF Len(tx.data) < PAYLOAD_LEN THEN "ParseError"
    ELSE IF op.parent_block_ptr = 0 /\ op.parent_vtxindex # 0 THEN "ParseError"
    ELSE IF op.parent_block_ptr >= env.block_height THEN "ParseError"
    ELSE IF op.key_block_ptr = 0 \/ op.key_block_ptr >= env.block_height THEN "ParseError"
    ELSE "none"

BurnOnlyHeight ==
    \/ env.block_height >= env.burnchain.sunset_end
    \/ env.block_height \in env.burnchain.prepare_heights

C22_StructuralChecksInOrder ==
    ParsedFromTx =>
        /\ StructuralError # "none" => result = Err(StructuralError)
        /\ result = Err("BlockCommitBadOutputs") =>
              (StructuralError = "none" /\ BurnOnlyHeight /\ tx.outputs[1].address.bytes # 0)
        /\ (StructuralError = "none" /\ BurnOnlyHeight /\ tx.outputs[1].address.bytes # 0)
              => result = Err("BlockCommitBadOutputs")

\* after the sunset, a first output that does not burn and a key pointer at
\* the block's own height: the pointer decides
C22_Witness ==
    /\ ParsedFromTx
    /\ Len(tx.inputs) > 0 /\ Len(tx.outputs) > 0
    /\ tx.opcode = OPCODE_LEADER_BLOCK_COMMIT
    /\ Len(tx.data) >= PAYLOAD_LEN
    /\ op.parent_block_ptr = 0 /\ op.parent_vtxindex = 0
    /\ op.key_block_ptr >= env.block_height
    /\ env.block_height >= env.burnchain.sunset_end
    /\ tx.outputs[1].address.bytes # 0
    /\ result = Err("ParseError")

(***************************************************************************)
(* C23: in the reward phase with no reward set supplied, the output-shape  *)
(* step passes if and only if every commit output is a burn address (an    *)
(* empty commit_outs passes), and a non-burn output yields                 *)
(* BlockCommitBadOutputs; the descent query is not made.                   *)
(***************************************************************************)
NoRewardSet == ~env.reward_set_info.is_some

C23_NoRewardSetAsStated ==
    (Checked /\ OpRewardPhase /\ NoRewardSet) =>
        /\ OutputStepPasses <=> AllCommitOutsBurn
        /\ ~AllCommitOutsBurn => result = Err("BlockCommitBadOutputs")
        /\ result # Err("BlockCommitAnchorCheck")

\* C23 as amended: the sunset-burn test comes first.  The sum burn_fee +
\* sunset_burn overflowing u64 aborts; a sunset burn below the expected one
\* is BlockCommitBadOutputs whatever the outputs; with the sunset burn
\* covered the step passes exactly when every commit output burns.
C23_NoRewardSetBurnsOnly ==
    (Checked /\ OpRewardPhase /\ NoRewardSet) =>
        /\ AmountsOverflow => result = Panic
        /\ (~AmountsOverflow /\ ~SunsetBurnCovered) => result = Err("BlockCommitBadOutputs")
        /\ SunsetBurnCovered =>
              /\ OutputStepPasses <=> AllCommitOutsBurn
              /\ ~AllCommitOutsBurn => result = Err("BlockCommitBadOutputs")
        /\ result # Err("BlockCommitAnchorCheck")

\* an operation without commit outputs passes while the descent query would fail
C23_Witness ==
    /\ Checked
    /\ OpRewardPhase
    /\ NoRewardSet
    /\ SunsetBurnCovered
    /\ op.commit_outs = <<>>
    /\ env.descended = "DBError"
    /\ result = Ok

(***************************************************************************)
(* C24: an operation whose intended modulus (burn_parent_modulus + 1) mod  *)
(* 5 differs from block_height mod 5 is never accepted.  With a non-zero   *)
(* burn_fee the outcome is BlockCommitBadModulus when the miss distance    *)
(* exceeds block_height, BlockCommitNoParent when the fork has no burn     *)
(* block at block_height - miss_distance, and MissedBlockCommit otherwise, *)
(* whatever the commit outputs, reward set, key and parent references,     *)
(* block hash and memo are.                                                *)
(***************************************************************************)
C24_MissedSlotNeverAccepted ==
    (Checked /\ IntendedModulus # ActualModulus) =>
        /\ result # Ok
        /\ op.burn_fee # 0 =>
              /\ result.tag \in {"BlockCommitBadModulus", "BlockCommitNoParent", "MissedBlockCommit"}
              /\ result = MissedSlotOutcome

\* a missed commit with non-burn outputs against a reward set it does not pay
C24_Witness ==
    /\ Checked
    /\ IntendedModulus # ActualModulus
    /\ op.burn_fee # 0
    /\ env.reward_set_info.is_some
    /\ op.commit_outs = <<ADDR_A>>
    /\ result.tag = "MissedBlockCommit"

(***************************************************************************)
(* C29: whenever the intended and the actual modulus differ, the computed  *)
(* miss_distance lies between 1 and 4; whenever check returns              *)
(* MissedBlockCommit, the height looked up, block_height - miss_distance,  *)
(* is the greatest height below block_height congruent modulo 5 to the     *)
(* intended modulus; the subtraction never underflows.  This holds for     *)
(* every burn_parent_modulus byte 0..255.                                  *)
(***************************************************************************)
\* the miss distance as check computes it for the checked operation
ComputedMissDistance ==
    miss_distance_of(op.block_height % BURN_BLOCK_MINED_AT_MODULUS,
                     (burn_block_mined_at(op) + 1) % BURN_BLOCK_MINED_AT_MODULUS)

\* the height of the burn block whose hash a missed commit carries
LookedUpHeight ==
    CHOOSE h \in TimingHeights : BurnHash(h) = result.data[3]

C29_MissDistanceInRange ==
    (Checked /\ IntendedModulus # ActualModulus /\ op.burn_fee # 0) =>
        /\ ComputedMissDistance \in 1..4
        /\ result.tag \in {"MissedBlockCommit", "BlockCommitNoParent"}
              => op.block_height - ComputedMissDistance >= 0
        /\ result.tag = "BlockCommitBadModulus" => op.block_height < ComputedMissDistance
        /\ result.tag = "MissedBlockCommit" =>
              /\ \E h \in TimingHeights : BurnHash(h) = result.data[3]
              /\ LookedUpHeight = op.block_height - ComputedMissDistance
              /\ LookedUpHeight < op.block_height
              /\ LookedUpHeight % 5 = IntendedModulus
              /\ \A j \in (LookedUpHeight + 1)..(op.block_height - 1) : j % 5 # IntendedModulus

\* a modulus byte above 250 and an intended burn block four blocks back
C29_Witness ==
    /\ Checked
    /\ op.burn_fee # 0
    /\ op.burn_parent_modulus > 250
    /\ result.tag = "MissedBlockCommit"
    /\ LookedUpHeight = op.block_height - 4

(***************************************************************************)
(* C25: check asks for the fork descent only after it has validated the    *)
(* commit outputs: only when a reward set with a non-burn recipient is     *)
(* supplied, the height is neither post-sunset nor in a prepare phase, the *)
(* sunset burn is sufficient, and the commit outputs are all burns or      *)
(* equal the expected recipients as a multiset; never when the recipients  *)
(* all burn, when no reward set is supplied or when the outputs do not     *)
(* match.  The query is observed through its failure, which check returns  *)
(* as BlockCommitAnchorCheck.                                              *)
(***************************************************************************)
DescentQueryFails == env.descended = "DBError"

DescentQueried == result = Err("BlockCommitAnchorCheck")

C25_DescentQueriedAfterOutputs ==
    (Checked /\ DescentQueryFails) =>
        /\ DescentQueried <=>
              /\ SomeNonBurnRecipient
              /\ OpRewardPhase
              /\ SunsetBurnCovered
              /\ (AllCommitOutsBurn \/ PaysRecipients)
        /\ (NoRewardSet \/ ~SomeNonBurnRecipient) => ~DescentQueried

\* the outputs pay the two recipients in the other order: the query is made
C25_Witness ==
    /\ Checked
    /\ DescentQueryFails
    /\ SomeNonBurnRecipient
    /\ OpRewardPhase
    /\ SunsetBurnCovered
    /\ ~AllCommitOutsBurn
    /\ op.commit_outs = <<ADDR_B, ADDR_A>>
    /\ env.reward_set_info.value.recipients = <<<<ADDR_A, 1>>, <<ADDR_B, 1>>>>
    /\ DescentQueried

(***************************************************************************)
(* C26: for every reward set, and for none, an operation at a reward-phase *)
(* height whose commit_outs equal into_commit_outs(reward set, mainnet)    *)
(* passes the comparison of the outputs: it is rejected with               *)
(* BlockCommitBadOutputs only for an insufficient sunset burn, or because  *)
(* it pays a non-burn recipient while its parent does not descend from the *)
(* anchor block.                                                           *)
(***************************************************************************)
CarriesResolvedOuts ==
    op.commit_outs = into_commit_outs(env.reward_set_info, is_mainnet(env.burnchain))

C26_ResolvedOutsAccepted ==
    (Checked /\ OpRewardPhase /\ CarriesResolvedOuts) =>
        /\ result = Err("BlockCommitBadOutputs") =>
              \/ (~AmountsOverflow /\ ~SunsetBurnCovered)
              \/ (~AllCommitOutsBurn /\ env.descended = "false")
        /\ (SunsetBurnCovered /\ (AllCommitOutsBurn \/ env.descended = "true")) => result = Ok

\* on the main network a single recipient is padded with that network's burn
\* address, and the operation carrying the pair is accepted
C26_Witness ==
    /\ Checked
    /\ OpRewardPhase
    /\ CarriesResolvedOuts
    /\ env.burnchain.mainnet
    /\ env.reward_set_info.is_some
    /\ Len(env.reward_set_info.value.recipients) = 1
    /\ op.commit_outs = <<ADDR_A, burn_address(TRUE)>>
    /\ result = Ok

(***************************************************************************)
(* C27: every operation check accepts has back-references to strictly      *)
(* earlier heights: key_block_ptr < block_height and, unless the parent is *)
(* the genesis reference (0, 0), parent_block_ptr < block_height.  An      *)
(* operation whose key or parent pointer is at or above its own block      *)
(* height, a parent pointer above it included, is never accepted.          *)
(***************************************************************************)
C27_AcceptedRefsPointBack ==
    (Checked /\ result = Ok) =>
        /\ op.key_block_ptr < op.block_height
        /\ (op.parent_block_ptr = 0 /\ op.parent_vtxindex = 0)
              \/ op.parent_block_ptr < op.block_height

(***************************************************************************)
(* C28: with an epoch table whose Epoch10 covers exactly the heights below *)
(* the first block height of the chain, and whose later epochs cover every *)
(* height from there on, check never reaches the abort of the epoch        *)
(* lookup: an operation at a pre-genesis height is rejected by an earlier  *)
(* guard, at the latest by the genesis floor with                          *)
(* BlockCommitPredatesGenesis.  (The one abort left is the overflow of     *)
(* burn_fee + sunset_burn in the output guard.)                            *)
(***************************************************************************)
EpochsAlignedWithGenesis ==
    /\ epochs[1].epoch_id = "Epoch10"
    /\ epochs[1].start_height = 0
    /\ epochs[1].end_height = snapshots[1].block_height
    /\ \A i \in 2..Len(epochs) :
           epochs[i].epoch_id # "Epoch10" /\ epochs[i].start_height = epochs[i - 1].end_height
    /\ epochs[Len(epochs)].end_height = STACKS_EPOCH_MAX

PreGenesisHeight == op.block_height < snapshots[1].block_height

C28_AlignedEpochsNeverAbort ==
    (Checked /\ EpochsAlignedWithGenesis) =>
        /\ result = Panic => (FirstFailing = 3 /\ AmountsOverflow)
        /\ PreGenesisHeight =>
              /\ FirstFailing \in 1..4
              /\ result # Ok
              /\ GuardsPassUpTo(3) => result = Err("BlockCommitPredatesGenesis")

\* an operation of Epoch10, mined for its slot below the first block
C28_Witness ==
    /\ Checked
    /\ EpochsAlignedWithGenesis
    /\ PreGenesisHeight
    /\ EpochIdAt(op.block_height) = "Epoch10"
    /\ GuardsPassUpTo(3)
    /\ result = Err("BlockCommitPredatesGenesis")

(***************************************************************************)
(* C30: the marker the checker compares is the marker that survives on the *)
(* wire: for every operation, with any memo byte 0..255 or an empty memo,  *)
(* the Epoch 2.05 marker decision of check on the in-memory operation      *)
(* equals its decision on the operation obtained by consensus_serialize    *)
(* followed by parse_data.                                                 *)
(***************************************************************************)
Rechecked == Checked /\ wire # <<>>

C30_MarkerDecisionSurvivesWire ==
    Rechecked =>
        ((result = Err("BlockCommitBadEpoch")) <=> (env.in_memory = Err("BlockCommitBadEpoch")))

====
